---- MODULE Spec2Model ----
(***************************************************************************)
(* Model of the album de-duplication engine of muman (src/src/dedup.rs),   *)
(* the live-album remover (src/src/lives.rs), the text normaliser          *)
(* (src/src/metadata.rs), the library scan (src/src/library.rs) and the    *)
(* scan cache (src/src/fs.rs).                                             *)
(*                                                                         *)
(* Text is a sequence of one-character strings.  Option<T> is a sequence   *)
(* of length 0 (None) or 1 (Some).  A path is a pair <<dir, name>>.        *)
(***************************************************************************)
EXTENDS Integers, Sequences, FiniteSets, TLC

\* ------------------------------------------------------------------------
\* Option<T>
\* ------------------------------------------------------------------------
None == <<>>

Some(x) == <<x>>

IsSome(o) == Len(o) = 1

Unwrap(o) == o[1]

\* ------------------------------------------------------------------------
\* Text: str::to_lowercase, char::is_alphanumeric, char::is_whitespace,
\* str::trim, str::contains over the characters the model uses
\* ------------------------------------------------------------------------
UpperChars == <<"A","B","C","D","E","F","G","H","I","J","K","L","M",
                "N","O","P","Q","R","S","T","U","V","W","X","Y","Z">>

LowerChars == <<"a","b","c","d","e","f","g","h","i","j","k","l","m",
                "n","o","p","q","r","s","t","u","v","w","x","y","z">>

DigitChars == <<"0","1","2","3","4","5","6","7","8","9">>

Range(s) == {s[i] : i \in DOMAIN s}

\* U+0130, the one letter of the model whose lowercase is two characters:
\* i followed by U+0307, a combining mark
CapitalIDot == "I-dot"

CombiningDot == "dot"

to_lowercase_char(c) ==
    IF c \in Range(UpperChars)
    THEN LowerChars[CHOOSE i \in DOMAIN UpperChars : UpperChars[i] = c]
    ELSE c

RECURSIVE to_lowercase_expand(_)
to_lowercase_expand(s) ==
    IF s = <<>> THEN <<>>
    ELSE (IF Head(s) = CapitalIDot THEN <<"i", CombiningDot>>
          ELSE <<to_lowercase_char(Head(s))>>) \o to_lowercase_expand(Tail(s))

to_lowercase(s) ==
    IF CapitalIDot \in Range(s) THEN to_lowercase_expand(s)
    ELSE [i \in DOMAIN s |-> to_lowercase_char(s[i])]

is_alphanumeric(c) ==
    c \in Range(UpperChars) \cup Range(LowerChars) \cup Range(DigitChars)
           \cup {CapitalIDot}

is_whitespace(c) == c \in {" ", "\t", "\n"}

RECURSIVE trim_start(_)
trim_start(s) ==
    IF s # <<>> /\ is_whitespace(Head(s)) THEN trim_start(Tail(s)) ELSE s

RECURSIVE trim_end(_)
trim_end(s) ==
    IF s # <<>> /\ is_whitespace(s[Len(s)])
    THEN trim_end(SubSeq(s, 1, Len(s) - 1))
    ELSE s

trim(s) == trim_end(trim_start(s))

KeepChar(c) == is_alphanumeric(c) \/ is_whitespace(c)

\* normalize_str trimming before it filters
normalize_str_trim_first(input) ==
    IF IsSome(input)
    THEN SelectSeq(to_lowercase(trim(Unwrap(input))), KeepChar)
    ELSE <<>>

\* SongMetadata::normalize_str: lowercase, keep alphanumeric and whitespace
\* characters, trim the two ends; None gives the empty string.
normalize_str(input) ==
    IF IsSome(input)
    THEN trim(SelectSeq(to_lowercase(Unwrap(input)), KeepChar))
    ELSE <<>>

\* str::contains
contains(s, pat) ==
    \E k \in 0..(Len(s) - Len(pat)) : SubSeq(s, k + 1, k + Len(pat)) = pat

\* ------------------------------------------------------------------------
\* Filesystem: fs maps a path to the inode it names (Absent when no file is
\* there), fsize gives the length of an inode's content, dirs is the set of
\* existing directories.
\* ------------------------------------------------------------------------
Absent == 0

parent(p) == p[1]

VARIABLES
    command,         \* "dedup" or "lives": which run is executed
    dry_run,         \* the dry_run argument of run
    use_hard_links,  \* the use_hard_links argument of dedup::run
    all_songs,       \* library.get_all_songs(): the snapshot, Seq(SongMetadata)
    fs,              \* path -> inode, Absent when the path names no file
    fsize,           \* inode -> length of its content in bytes
    dirs,            \* the directories that exist
    dev,             \* directory -> device it is mounted on
    artists,         \* dedup: artist key -> ArtistEntry; lives: -> Seq(LiveAlbum)
    pc,              \* position of the run
    todo,            \* artist keys the loop of run has not visited yet
    cur,             \* Some(artist key) while an artist is processed
    album_keys,      \* process_albums: the order keys().collect() produced
    pi,              \* process_albums: loop index i
    pj,              \* process_albums: loop index j
    prompts,         \* number of operator responses read so far
    mutated,         \* a file was deleted or hard-linked earlier in this run
    processed_pairs, \* process_albums: the pairs already handled
    history,         \* what earlier steps flagged (for the properties)
    ret              \* result of the last pure call / last step summary

vars == <<command, dry_run, use_hard_links, all_songs, fs, fsize, dirs, dev,
          artists, pc, todo, cur, album_keys, pi, pj, prompts, mutated,
          processed_pairs, history, ret>>

\* The state of the filesystem a function reads and returns.
FS(f, d) == [ino |-> f, dirs |-> d]

Abs(x) == IF x < 0 THEN -x ELSE x

\* std::fs::metadata(path).map(|m| m.len()).unwrap_or(0)
get_file_size(f, path) ==
    IF f.ino[path] = Absent THEN 0 ELSE fsize[f.ino[path]]

\* ------------------------------------------------------------------------
\* dedup.rs: song identity and album relation
\* ------------------------------------------------------------------------
SizeTolerance == 100

SingleMaxTracks == 2

\* Strict check: ISRC OR (Size + Title).
is_same_song(a, b, f) ==
    LET both == IsSome(a.isrc) /\ IsSome(b.isrc)
        fallback ==
            IF normalize_str(a.title) # normalize_str(b.title) THEN FALSE
            ELSE IF IsSome(a.file_path) /\ IsSome(b.file_path)
                 THEN LET s_a == get_file_size(f, Unwrap(a.file_path))
                          s_b == get_file_size(f, Unwrap(b.file_path))
                      IN  IF s_a > 0 /\ s_b > 0
                          THEN Abs(s_a - s_b) < (s_a \div SizeTolerance)
                          ELSE FALSE
                 ELSE FALSE
    IN  IF both /\ Unwrap(a.isrc) = Unwrap(b.isrc) THEN TRUE
        ELSE IF both /\ Unwrap(a.isrc) # <<>> /\ Unwrap(b.isrc) # <<>> THEN FALSE
        ELSE fallback

\* inner loop of compare_albums: is there a song_b that is the same song
RECURSIVE first_match(_, _, _, _)
first_match(song_a, songs_b, j, f) ==
    IF j > Len(songs_b) THEN FALSE
    ELSE IF is_same_song(song_a, songs_b[j], f) THEN TRUE
    ELSE first_match(song_a, songs_b, j + 1, f)

\* compare_albums without the break: every matching pair is counted
RECURSIVE count_matches_nobreak(_, _, _, _)
count_matches_nobreak(songs_a, songs_b, i, f) ==
    IF i > Len(songs_a) THEN 0
    ELSE Cardinality({j \in DOMAIN songs_b :
                          is_same_song(songs_a[i], songs_b[j], f)})
         + count_matches_nobreak(songs_a, songs_b, i + 1, f)

\* outer loop of compare_albums: matches += 1; break
RECURSIVE count_matches(_, _, _, _)
count_matches(songs_a, songs_b, i, f) ==
    IF i > Len(songs_a) THEN 0
    ELSE (IF first_match(songs_a[i], songs_b, 1, f) THEN 1 ELSE 0)
         + count_matches(songs_a, songs_b, i + 1, f)

compare_albums(a, b, f) ==
    LET matches == count_matches(a.songs, b.songs, 1, f)
        a_len == Len(a.songs)
        b_len == Len(b.songs)
    IN  IF matches = 0 THEN "Disjoint"
        ELSE IF matches = a_len /\ matches = b_len THEN "Identical"
        ELSE IF matches = a_len /\ matches < b_len THEN "Subset"
        ELSE IF matches = b_len /\ matches < a_len THEN "Superset"
        ELSE "PartialOverlap"

\* ------------------------------------------------------------------------
\* dedup.rs: file operations.  Each takes and returns the filesystem.
\* ------------------------------------------------------------------------
DirEmpty(f, d) == \A p \in DOMAIN f.ino : parent(p) = d => f.ino[p] = Absent

\* std::fs::remove_dir: succeeds only on an existing, empty directory
remove_dir(f, d) ==
    IF d \in f.dirs /\ DirEmpty(f, d)
    THEN [f EXCEPT !.dirs = @ \ {d}]
    ELSE f

\* delete_file without the dry_run test
delete_file_always(f, path, dry) ==
    IF f.ino[path] = Absent THEN f
    ELSE remove_dir([f EXCEPT !.ino[path] = Absent], parent(path))

delete_file(f, path, dry) ==
    IF dry THEN f
    ELSE IF f.ino[path] = Absent THEN f          \* remove_file failed: return
    ELSE remove_dir([f EXCEPT !.ino[path] = Absent], parent(path))

RECURSIVE delete_paths(_, _, _, _)
delete_paths(f, paths, k, dry) ==
    IF k > Len(paths) THEN f
    ELSE delete_paths(delete_file(f, paths[k], dry), paths, k + 1, dry)

\* the paths of the songs that have one, in order
RECURSIVE song_paths(_, _)
song_paths(songs, k) ==
    IF k > Len(songs) THEN <<>>
    ELSE (IF IsSome(songs[k].file_path)
          THEN <<Unwrap(songs[k].file_path)>> ELSE <<>>)
         \o song_paths(songs, k + 1)

delete_album(f, album, dry) ==
    delete_paths(f, song_paths(album.songs, 1), 1, dry)

are_files_hard_linked(f, p1, p2) ==
    IF f.ino[p1] # Absent /\ f.ino[p2] # Absent
    THEN f.ino[p1] = f.ino[p2] /\ dev[parent(p1)] = dev[parent(p2)]
    ELSE FALSE

\* std::fs::hard_link(src, target): fails when src is missing, target exists
\* or the two directories are on different devices
LinkOk(f, src, target) ==
    /\ f.ino[src] # Absent
    /\ f.ino[target] = Absent
    /\ parent(target) \in f.dirs
    /\ dev[parent(src)] = dev[parent(target)]

hard_link_file(f, src, target, dry) ==
    IF dry THEN f
    ELSE IF f.ino[target] = Absent THEN f        \* remove_file failed: return
    ELSE LET f1 == [f EXCEPT !.ino[target] = Absent]
         IN  IF LinkOk(f1, src, target)
             THEN [f1 EXCEPT !.ino[target] = f1.ino[src]]
             ELSE f1

\* try_hard_link_albums: the pair (song_a, song_b) visited at step k of the
\* nested loops, 0 <= k < |a| * |b|
RECURSIVE try_hard_link_from(_, _, _, _, _)
try_hard_link_from(f, a, b, k, dry) ==
    IF k >= Len(a.songs) * Len(b.songs) THEN f
    ELSE LET song_a == a.songs[(k \div Len(b.songs)) + 1]
             song_b == b.songs[(k % Len(b.songs)) + 1]
             f1 == IF /\ is_same_song(song_a, song_b, f)
                      /\ IsSome(song_a.file_path) /\ IsSome(song_b.file_path)
                   THEN LET path_a == Unwrap(song_a.file_path)
                            path_b == Unwrap(song_b.file_path)
                        IN  IF /\ path_a # path_b
                               /\ ~ are_files_hard_linked(f, path_a, path_b)
                               /\ get_file_size(f, path_a) = get_file_size(f, path_b)
                            THEN hard_link_file(f, path_a, path_b, dry)
                            ELSE f
                   ELSE f
         IN  try_hard_link_from(f1, a, b, k + 1, dry)

try_hard_link_albums(f, a, b, dry) == try_hard_link_from(f, a, b, 0, dry)

\* ------------------------------------------------------------------------
\* dedup.rs: operator input.  A line is the text typed before the newline.
\* ------------------------------------------------------------------------
DigitValue(c) == (CHOOSE i \in DOMAIN DigitChars : DigitChars[i] = c) - 1

RECURSIVE parse_digits(_, _)
parse_digits(s, acc) ==
    IF s = <<>> THEN acc
    ELSE parse_digits(Tail(s), 10 * acc + DigitValue(Head(s)))

\* read_user_input falling back to choice 1 instead of 0
read_user_input_default_one(line) ==
    LET t == trim(line)
        d == IF t # <<>> /\ Head(t) = "+" THEN Tail(t) ELSE t
    IN  IF d # <<>> /\ \A i \in DOMAIN d : d[i] \in Range(DigitChars)
        THEN parse_digits(d, 0)
        ELSE 1

\* input.trim().parse::<usize>().unwrap_or(0)
read_user_input(line) ==
    LET t == trim(line)
        d == IF t # <<>> /\ Head(t) = "+" THEN Tail(t) ELSE t
    IN  IF d # <<>> /\ \A i \in DOMAIN d : d[i] \in Range(DigitChars)
        THEN parse_digits(d, 0)
        ELSE 0

\* s == "y" || s == "yes" after trim and to_lowercase
read_yes_no(line) ==
    LET s == to_lowercase(trim(line))
    IN  s = <<"y">> \/ s = <<"y", "e", "s">>

\* ------------------------------------------------------------------------
\* dedup.rs: run, step 1: Artist -> Album -> Songs
\* ------------------------------------------------------------------------
\* build_hierarchy skipping a song only when both keys are empty
RECURSIVE build_hierarchy_skip_both(_, _, _)
build_hierarchy_skip_both(songs, k, acc) ==
    IF k > Len(songs) THEN acc
    ELSE LET song == songs[k]
             artist_norm == normalize_str(song.artist)
             album_norm == normalize_str(song.album)
         IN  IF artist_norm = <<>> /\ album_norm = <<>>
             THEN build_hierarchy_skip_both(songs, k + 1, acc)
             ELSE LET artist_entry ==
                          IF artist_norm \in DOMAIN acc THEN acc[artist_norm]
                          ELSE [name |-> artist_norm, albums |-> <<>>]
                      album_entry ==
                          IF album_norm \in DOMAIN artist_entry.albums
                          THEN artist_entry.albums[album_norm]
                          ELSE [name |-> album_norm, songs |-> <<>>]
                      album2 == [album_entry EXCEPT !.songs = Append(@, song)]
                      albums_rest == [x \in DOMAIN artist_entry.albums \ {album_norm}
                                          |-> artist_entry.albums[x]]
                      artist2 == [artist_entry EXCEPT
                                      !.albums = (album_norm :> album2) @@ albums_rest]
                      acc_rest == [x \in DOMAIN acc \ {artist_norm} |-> acc[x]]
                  IN  build_hierarchy_skip_both(songs, k + 1,
                                                (artist_norm :> artist2) @@ acc_rest)

RECURSIVE build_hierarchy(_, _, _)
build_hierarchy(songs, k, acc) ==
    IF k > Len(songs) THEN acc
    ELSE LET song == songs[k]
             artist_norm == normalize_str(song.artist)
             album_norm == normalize_str(song.album)
         IN  IF artist_norm = <<>> \/ album_norm = <<>>
             THEN build_hierarchy(songs, k + 1, acc)
             ELSE LET artist_entry ==
                          IF artist_norm \in DOMAIN acc THEN acc[artist_norm]
                          ELSE [name |-> Unwrap(song.artist), albums |-> <<>>]
                      album_entry ==
                          IF album_norm \in DOMAIN artist_entry.albums
                          THEN artist_entry.albums[album_norm]
                          ELSE [name |-> Unwrap(song.album), songs |-> <<>>]
                      album2 == [album_entry EXCEPT !.songs = Append(@, song)]
                      albums_rest == [x \in DOMAIN artist_entry.albums \ {album_norm}
                                          |-> artist_entry.albums[x]]
                      artist2 == [artist_entry EXCEPT
                                      !.albums = (album_norm :> album2) @@ albums_rest]
                      acc_rest == [x \in DOMAIN acc \ {artist_norm} |-> acc[x]]
                  IN  build_hierarchy(songs, k + 1, (artist_norm :> artist2) @@ acc_rest)

\* ------------------------------------------------------------------------
\* dedup.rs: redundant singles
\* ------------------------------------------------------------------------
\* find_song_in_other_albums that also accepts albums of 1 or 2 tracks
RECURSIVE find_song_in_any_album(_, _, _, _, _, _)
find_song_in_any_album(query, artist, keys, k, exclude_album_key, f) ==
    IF k > Len(keys) THEN None
    ELSE LET key == keys[k]
             album == artist.albums[key]
         IN  IF key = exclude_album_key
             THEN find_song_in_any_album(query, artist, keys, k + 1,
                                         exclude_album_key, f)
             ELSE IF first_match(query, album.songs, 1, f)
             THEN Some(key)
             ELSE find_song_in_any_album(query, artist, keys, k + 1,
                                         exclude_album_key, f)

\* find_song_in_other_albums: the first album, in the map's iteration order
\* keys, that is not the excluded one, has more than 2 tracks and holds the
\* same song; None when there is none
RECURSIVE find_song_in_other_albums(_, _, _, _, _, _)
find_song_in_other_albums(query, artist, keys, k, exclude_album_key, f) ==
    IF k > Len(keys) THEN None
    ELSE LET key == keys[k]
             album == artist.albums[key]
         IN  IF key = exclude_album_key \/ Len(album.songs) <= SingleMaxTracks
             THEN find_song_in_other_albums(query, artist, keys, k + 1,
                                            exclude_album_key, f)
             ELSE IF first_match(query, album.songs, 1, f)
             THEN Some(key)
             ELSE find_song_in_other_albums(query, artist, keys, k + 1,
                                            exclude_album_key, f)

\* the songs pushed to singles_to_remove for one album
RECURSIVE singles_of_album(_, _, _, _, _)
singles_of_album(artist, keys, album_key, k, f) ==
    LET album == artist.albums[album_key]
    IN  IF k > Len(album.songs) THEN <<>>
        ELSE (IF /\ Len(album.songs) <= SingleMaxTracks
                 /\ IsSome(find_song_in_other_albums(album.songs[k], artist,
                                                     keys, 1, album_key, f))
                 /\ IsSome(album.songs[k].file_path)
              THEN <<Unwrap(album.songs[k].file_path)>>
              ELSE <<>>)
             \o singles_of_album(artist, keys, album_key, k + 1, f)

\* singles_to_remove, the albums visited in the order keys
RECURSIVE singles_to_remove(_, _, _, _)
singles_to_remove(artist, keys, k, f) ==
    IF k > Len(keys) THEN <<>>
    ELSE singles_of_album(artist, keys, keys[k], 1, f)
         \o singles_to_remove(artist, keys, k + 1, f)

remove_redundant_singles(f, artist, keys, dry) ==
    delete_paths(f, singles_to_remove(artist, keys, 1, f), 1, dry)

\* ------------------------------------------------------------------------
\* dedup.rs: process_albums, the body of the loop for one pair of albums.
\* line is the operator's response, read only when a prompt is issued.
\* ------------------------------------------------------------------------
Asked(relation, dry) ==
    ~ dry /\ relation \in {"Identical", "Subset", "Superset"}

\* process_pair that deletes album_a for Superset as it does for Subset
process_pair_same_side(f, album_a, album_b, line, dry, hard) ==
    LET relation == compare_albums(album_a, album_b, f)
    IN  CASE relation = "Disjoint" -> f
          [] relation = "Identical" ->
                IF ~ dry
                THEN LET choice == read_user_input(line)
                     IN  IF choice = 1 THEN delete_album(f, album_a, dry)
                         ELSE IF choice = 2 THEN delete_album(f, album_b, dry)
                         ELSE IF hard
                              THEN try_hard_link_albums(f, album_a, album_b, dry)
                              ELSE f
                ELSE f
          [] relation \in {"Subset", "Superset"} ->
                IF ~ dry /\ read_yes_no(line)
                THEN delete_album(f, album_a, dry)
                ELSE f
          [] relation = "PartialOverlap" ->
                IF hard
                THEN try_hard_link_albums(f, album_a, album_b, dry)
                ELSE f

process_pair(f, album_a, album_b, line, dry, hard) ==
    LET relation == compare_albums(album_a, album_b, f)
    IN  CASE relation = "Disjoint" -> f
          [] relation = "Identical" ->
                IF ~ dry
                THEN LET choice == read_user_input(line)
                     IN  IF choice = 1 THEN delete_album(f, album_a, dry)
                         ELSE IF choice = 2 THEN delete_album(f, album_b, dry)
                         ELSE IF hard
                              THEN try_hard_link_albums(f, album_a, album_b, dry)
                              ELSE f
                ELSE f
          [] relation = "Subset" ->
                IF ~ dry /\ read_yes_no(line)
                THEN delete_album(f, album_a, dry)
                ELSE f
          [] relation = "Superset" ->
                IF ~ dry /\ read_yes_no(line)
                THEN delete_album(f, album_b, dry)
                ELSE f
          [] relation = "PartialOverlap" ->
                IF hard
                THEN try_hard_link_albums(f, album_a, album_b, dry)
                ELSE f

\* ------------------------------------------------------------------------
\* lives.rs
\* ------------------------------------------------------------------------
LiveKeywords ==
    { <<"l","i","v","e">>,
      <<"c","o","n","c","e","r","t">>,
      <<"t","o","u","r">>,
      <<"p","e","r","f","o","r","m","a","n","c","e">>,
      <<"u","n","p","l","u","g","g","e","d">>,
      <<"s","e","s","s","i","o","n","s">>,
      <<"b","b","c">>,
      <<" ","a","t"," ","t","h","e"," ">>,
      <<" ","i","n"," ">> }

is_live_album(album) ==
    LET s == to_lowercase(album)
    IN  \E kw \in LiveKeywords : contains(s, kw)

\* temp_grouping: (artist_norm, album_norm) -> paths, then artist_norm ->
\* (album_norm -> LiveAlbum)
RECURSIVE group_live(_, _, _)
group_live(songs, k, acc) ==
    IF k > Len(songs) THEN acc
    ELSE LET song == songs[k]
         IN  IF /\ IsSome(song.artist) /\ IsSome(song.album)
                /\ IsSome(song.file_path)
                /\ is_live_album(Unwrap(song.album))
             THEN LET artist_norm == normalize_str(song.artist)
                      album_norm == normalize_str(song.album)
                      path == Unwrap(song.file_path)
                      albums == IF artist_norm \in DOMAIN acc
                                THEN acc[artist_norm] ELSE <<>>
                      entry == IF album_norm \in DOMAIN albums
                               THEN albums[album_norm]
                               ELSE [name |-> parent(path), paths |-> <<>>]
                      entry2 == [entry EXCEPT !.paths = Append(@, path)]
                      albums_rest == [x \in DOMAIN albums \ {album_norm}
                                          |-> albums[x]]
                      acc_rest == [x \in DOMAIN acc \ {artist_norm} |-> acc[x]]
                  IN  group_live(songs, k + 1,
                          (artist_norm :> ((album_norm :> entry2) @@ albums_rest))
                              @@ acc_rest)
             ELSE group_live(songs, k + 1, acc)

\* the loop of lives::delete_album leaving at the first failing remove_file
RECURSIVE live_remove_files_until_error(_, _, _)
live_remove_files_until_error(f, paths, k) ==
    IF k > Len(paths) \/ f.ino[paths[k]] = Absent THEN f
    ELSE live_remove_files_until_error([f EXCEPT !.ino[paths[k]] = Absent],
                                       paths, k + 1)

\* the loop of lives::delete_album: a failing remove_file is logged and the
\* loop goes on
RECURSIVE live_remove_files(_, _, _)
live_remove_files(f, paths, k) ==
    IF k > Len(paths) THEN f
    ELSE live_remove_files([f EXCEPT !.ino[paths[k]] = Absent], paths, k + 1)

live_delete_album(f, album, dry) ==
    IF dry THEN f
    ELSE LET f1 == live_remove_files(f, album.paths, 1)
         IN  IF album.paths # <<>>
             THEN remove_dir(f1, parent(album.paths[1]))
             ELSE f1

RECURSIVE live_delete_all(_, _, _, _, _)
live_delete_all(f, albums, order, k, dry) ==
    IF k > Len(order) THEN f
    ELSE live_delete_all(live_delete_album(f, albums[order[k]], dry),
                         albums, order, k + 1, dry)

\* input.trim().to_lowercase().chars().next().unwrap_or(' ')
read_char(line) ==
    LET s == to_lowercase(trim(line))
    IN  IF s = <<>> THEN " " ELSE Head(s)

process_single_live(f, album, line, dry) ==
    IF ~ dry /\ read_yes_no(line)
    THEN live_delete_album(f, album, dry)
    ELSE f

\* byte order of the characters a normalized key can hold
AsciiOrder == <<"\t", "\n", " ">> \o DigitChars \o UpperChars \o LowerChars

CharCode(c) == CHOOSE i \in DOMAIN AsciiOrder : AsciiOrder[i] = c

\* a.0.cmp(&b.0) = Less
RECURSIVE StrLess(_, _)
StrLess(s, t) ==
    IF t = <<>> THEN FALSE
    ELSE IF s = <<>> THEN TRUE
    ELSE IF CharCode(Head(s)) # CharCode(Head(t))
         THEN CharCode(Head(s)) < CharCode(Head(t))
         ELSE StrLess(Tail(s), Tail(t))

\* first element of sorted_artists not yet visited
FirstArtist(S) == CHOOSE k \in S : \A o \in S \ {k} : StrLess(k, o)

\* the orders in which a map can iterate over its keys
Perms(S) ==
    {q \in [1..Cardinality(S) -> S] :
        \A i, j \in 1..Cardinality(S) : i # j => q[i] # q[j]}

\* ------------------------------------------------------------------------
\* Bounds and the libraries the runs start from
\* ------------------------------------------------------------------------
\* files in a library of arbitrary shape
MaxSongs == 3

\* tracks of the full album in a library made of a single and a full album
ParentTracks == 3

\* tracks of each album handed to compare_albums on its own
MaxAlbumLen == 2

\* raw (artist, album) tags of the albums a scanned file can belong to; each
\* album lives in a directory of its own
Slots ==
    << [artist |-> Some(<<"x">>),      album |-> Some(<<"l","p">>)],
       [artist |-> Some(<<"x">>),      album |-> Some(<<"L","i","v","e">>)],
       [artist |-> Some(<<"x">>),      album |-> Some(<<"t","o","u","r">>)],
       [artist |-> Some(<<"Y","!">>),  album |-> Some(<<"l","i","v","e">>)] >>

\* (isrc, title, file size) of a scanned file
Kinds ==
    << [isrc |-> Some(<<"A","1">>), title |-> Some(<<"t">>),     size |-> 200],
       [isrc |-> None,              title |-> Some(<<"T","!">>), size |-> 200],
       [isrc |-> Some(<<"B","2">>), title |-> Some(<<"u">>),     size |-> 300],
       [isrc |-> None,              title |-> Some(<<"T","!">>), size |-> 0] >>

\* what the operator can type at a prompt
Lines ==
    { <<>>, <<"Y"," ">>, <<"y","e","s">>, <<"1">>, <<"2">>,
      <<"d">>, <<"s">>, <<"q">> }

\* at the prompts of dedup::run the letters of the live-album menu are one
\* more unrecognised response and yes one more affirmative one, as the
\* digits are unrecognised at the prompts of lives::run
DedupLines == Lines \ {<<"y","e","s">>, <<"d">>, <<"s">>, <<"q">>}

LiveLines == Lines \ {<<"1">>, <<"2">>}

\* files are listed album by album
Layouts(n) ==
    {l \in [1..n -> DOMAIN Slots] : \A i \in 1..(n - 1) : l[i] <= l[i + 1]}

\* a single of 1..2 tracks followed by an album of ParentTracks tracks
SingleLayouts ==
    {[i \in 1..(n + ParentTracks) |-> IF i <= n THEN 1 ELSE 2] :
        n \in 1..SingleMaxTracks}

PathOf(layout, i) == <<layout[i], i>>

SongOf(layout, kinds, table, i) ==
    [title     |-> table[kinds[i]].title,
     artist    |-> Slots[layout[i]].artist,
     album     |-> Slots[layout[i]].album,
     isrc      |-> table[kinds[i]].isrc,
     file_path |-> Some(PathOf(layout, i))]

NoFS == [ino |-> <<>>, dirs |-> {}]

MkRet(ev, artist, a, b, rel, asked, line, before, prompts_before, dirty) ==
    [ev |-> ev, artist |-> artist, a |-> a, b |-> b, rel |-> rel,
     asked |-> asked, line |-> line, before |-> before,
     prompts_before |-> prompts_before, dirty |-> dirty]

NoRet == MkRet("none", <<>>, <<>>, <<>>, "-", FALSE, <<>>, NoFS, 0, FALSE)

\* where the loops of the run stood when a step began
LoopAt == [at |-> [pc |-> pc, pi |-> pi, pj |-> pj, todo |-> todo,
                   n |-> Len(album_keys)]]

\* the state a run starts from: the scanned library and the files it was
\* scanned from; a file of size 0 in the table stands for a missing file
InitRun(layout, kinds, table) ==
    /\ all_songs = [i \in DOMAIN layout |-> SongOf(layout, kinds, table, i)]
    /\ fs = [p \in {PathOf(layout, i) : i \in DOMAIN layout} |->
                IF table[kinds[p[2]]].size = 0 THEN Absent ELSE p[2]]
    /\ fsize = [i \in DOMAIN layout |-> table[kinds[i]].size]
    /\ dirs = {layout[i] : i \in DOMAIN layout}
    /\ artists = <<>>
    /\ pc = "start"
    /\ todo = {}
    /\ cur = None
    /\ album_keys = <<>>
    /\ pi = 0
    /\ pj = 0
    /\ prompts = 0
    /\ mutated = FALSE
    /\ processed_pairs = {}
    /\ history = [flagged |-> {},
                  start |-> [ino |-> [p \in {PathOf(layout, i) : i \in DOMAIN layout} |->
                                         IF table[kinds[p[2]]].size = 0 THEN Absent ELSE p[2]],
                             dirs |-> {layout[i] : i \in DOMAIN layout}]]
    /\ ret = NoRet

\* the libraries: every one of MaxSongs files, and every single next to a
\* full album
Libraries == Layouts(MaxSongs) \cup SingleLayouts

\* the library on one device, or with the second album directory on a
\* device of its own (a mount point below the library root)
OneDevice == [d \in DOMAIN Slots |-> 1]
Devices == {OneDevice, [d \in DOMAIN Slots |-> IF d = 2 THEN 2 ELSE 1]}

Init ==
    /\ command \in {"dedup", "lives"}
    /\ dry_run \in BOOLEAN
    \* lives::run has no such flag; a dry run of dedup::run takes with it
    \* every path it takes without it, and the path into try_hard_link_albums
    /\ use_hard_links \in (IF command = "lives" THEN {FALSE}
                           ELSE IF dry_run THEN {TRUE} ELSE BOOLEAN)
    /\ \E layout \in Libraries :
       \E kinds \in [DOMAIN layout -> DOMAIN Kinds] :
          \* lives::run reads artist, album and file_path only; a file may
          \* have gone since the scan
          /\ command = "lives" => \A i \in DOMAIN layout : kinds[i] \in {2, 4}
          \* dedup::run meets missing files through its own deletions
          /\ command = "dedup" => \A i \in DOMAIN layout : kinds[i] # 4
          \* the last artist has one album: no song of it is ever compared
          /\ \A i \in DOMAIN layout : layout[i] = Len(Slots) => kinds[i] = 2
          /\ InitRun(layout, kinds, Kinds)
    \* st_dev is read by the hard-linking code only; the second device holds
    \* the album Live of an artist with the two albums lp and Live
    /\ dev \in (IF use_hard_links /\ ~ dry_run /\ 3 \notin dirs
                THEN Devices ELSE {OneDevice})

\* ------------------------------------------------------------------------
\* dedup::run
\* ------------------------------------------------------------------------
CurFS == FS(fs, dirs)

\* 1. Build Hierarchy
BuildHierarchy ==
    /\ pc = "start"
    /\ command = "dedup"
    /\ artists' = build_hierarchy(all_songs, 1, <<>>)
    /\ todo' = DOMAIN artists'
    /\ pc' = "artists"
    /\ ret' = MkRet("build", <<>>, <<>>, <<>>, "-", FALSE, <<>>, CurFS, prompts, FALSE)
    /\ UNCHANGED <<command, dry_run, use_hard_links, all_songs, fs, fsize, dirs,
                   dev, cur, album_keys, pi, pj, prompts, mutated,
                   processed_pairs, history>>

\* the pairs (single album, parent album) the pre-pass reports
FlaggedPairs(artist_key, artist, keys, f) ==
    {t \in {artist_key} \X (DOMAIN artist.albums) \X (DOMAIN artist.albums) :
        /\ Len(artist.albums[t[2]].songs) <= SingleMaxTracks
        /\ \E k \in DOMAIN artist.albums[t[2]].songs :
              find_song_in_other_albums(artist.albums[t[2]].songs[k], artist,
                                        keys, 1, t[2], f) = Some(t[3])}

\* remove_redundant_singles evaluates is_same_song when the artist has an
\* album of at most 2 tracks and another one of more than 2
SinglesAnalyses(artist) ==
    \E s, p \in DOMAIN artist.albums :
        /\ s # p
        /\ Len(artist.albums[s].songs) <= SingleMaxTracks
        /\ Len(artist.albums[p].songs) > SingleMaxTracks

\* 2. the head of the loop over artists and A. remove_redundant_singles; the
\* map of artists and the map of albums iterate in an arbitrary order
RemoveRedundantSingles ==
    /\ pc = "artists"
    /\ todo # {}
    /\ \E k \in todo :
        \E keys \in Perms(DOMAIN artists[k].albums) :
          LET f2 == remove_redundant_singles(CurFS, artists[k], keys, dry_run)
          IN  /\ cur' = Some(k)
              /\ todo' = todo \ {k}
              /\ album_keys' = keys
              /\ fs' = f2.ino
              /\ dirs' = f2.dirs
              /\ mutated' = (mutated \/ f2.ino # fs)
              /\ history' = [history EXCEPT !.flagged =
                                @ \cup FlaggedPairs(k, artists[k], keys, CurFS)]
              /\ ret' = MkRet("singles", k, <<>>, <<>>, "-", FALSE, <<>>, CurFS,
                              prompts, mutated /\ SinglesAnalyses(artists[k]))
              /\ processed_pairs' = {}
              /\ IF Len(keys) >= 2
                 THEN pc' = "albums" /\ pi' = 1 /\ pj' = 2
                 ELSE pc' = "artists" /\ pi' = 0 /\ pj' = 0
    /\ UNCHANGED <<command, dry_run, use_hard_links, all_songs, fsize, dev,
                   artists, prompts>>

\* B. process_albums: one iteration of the inner loop, for the pair
\* (album_keys[pi], album_keys[pj])
ProcessPair ==
    /\ pc = "albums"
    /\ LET n == Len(album_keys)
           key_a == album_keys[pi]
           key_b == album_keys[pj]
           artist == artists[Unwrap(cur)]
           album_a == artist.albums[key_a]
           album_b == artist.albums[key_b]
           skip == <<key_a, key_b>> \in processed_pairs
           relation == compare_albums(album_a, album_b, CurFS)
           asked == ~ skip /\ Asked(relation, dry_run)
       IN  /\ \E line \in (IF asked THEN DedupLines ELSE {<<>>}) :
                LET f2 == IF skip THEN CurFS
                          ELSE process_pair(CurFS, album_a, album_b, line,
                                            dry_run, use_hard_links)
                IN  /\ fs' = f2.ino
                    /\ dirs' = f2.dirs
                    /\ mutated' = (mutated \/ f2.ino # fs)
                    /\ prompts' = IF asked THEN prompts + 1 ELSE prompts
                    /\ ret' = LoopAt @@ MkRet("pair", Unwrap(cur), key_a, key_b,
                                    IF skip THEN "-" ELSE relation, asked, line,
                                    CurFS, prompts, ~ skip /\ mutated)
           /\ processed_pairs' = processed_pairs \cup {<<key_a, key_b>>}
           /\ IF pj < n
              THEN pc' = "albums" /\ pi' = pi /\ pj' = pj + 1
              ELSE IF pi + 1 < n
              THEN pc' = "albums" /\ pi' = pi + 1 /\ pj' = pi + 2
              ELSE pc' = "artists" /\ pi' = 0 /\ pj' = 0
    /\ UNCHANGED <<command, dry_run, use_hard_links, all_songs, fsize, dev,
                   artists, todo, cur, album_keys, history>>

\* the loop over artists is exhausted: run returns
Finish ==
    /\ pc = "artists"
    /\ todo = {}
    /\ pc' = "done"
    /\ ret' = MkRet("finish", <<>>, <<>>, <<>>, "-", FALSE, <<>>, CurFS, prompts, FALSE)
    /\ UNCHANGED <<command, dry_run, use_hard_links, all_songs, fs, fsize, dirs,
                   dev, artists, todo, cur, album_keys, pi, pj, prompts, mutated,
                   processed_pairs, history>>

\* ------------------------------------------------------------------------
\* lives::run
\* ------------------------------------------------------------------------
\* 1. Filter and Group Live Albums
GroupLive ==
    /\ pc = "start"
    /\ command = "lives"
    /\ artists' = group_live(all_songs, 1, <<>>)
    /\ todo' = DOMAIN artists'
    /\ pc' = "live_artists"
    /\ ret' = MkRet("group", <<>>, <<>>, <<>>, "-", FALSE, <<>>, CurFS, prompts, FALSE)
    /\ UNCHANGED <<command, dry_run, use_hard_links, all_songs, fs, fsize, dirs,
                   dev, cur, album_keys, pi, pj, prompts, mutated,
                   processed_pairs, history>>

\* 2. one iteration of the loop over sorted_artists: process_single_live, or
\* process_multi_live up to the answer to its menu
LiveArtist ==
    /\ pc = "live_artists"
    /\ todo # {}
    /\ LET k == FirstArtist(todo)
           albums == artists[k]
           single == Cardinality(DOMAIN albums) = 1
       IN  /\ cur' = Some(k)
           /\ todo' = todo \ {k}
           /\ \E order \in Perms(DOMAIN albums) :
              \E line \in (IF dry_run THEN {<<>>} ELSE LiveLines) :
                LET c == read_char(line)
                    select == ~ single /\ ~ dry_run /\ c = "s"
                    quit == ~ single /\ ~ dry_run /\ c = "q"
                    f2 == IF single
                          THEN process_single_live(CurFS, albums[order[1]],
                                                   line, dry_run)
                          ELSE IF ~ dry_run /\ c = "d"
                          THEN live_delete_all(CurFS, albums, order, 1, dry_run)
                          ELSE CurFS
                IN  /\ album_keys' = order
                    /\ fs' = f2.ino
                    /\ dirs' = f2.dirs
                    /\ mutated' = (mutated \/ f2.ino # fs)
                    /\ prompts' = IF dry_run THEN prompts ELSE prompts + 1
                    /\ pi' = IF select THEN 1 ELSE 0
                    /\ pc' = IF select THEN "live_select"
                             ELSE IF quit THEN "exit"
                             ELSE "live_artists"
                    /\ ret' = LoopAt @@
                               MkRet(IF single THEN "single_live" ELSE "multi_live",
                                     k, <<>>, <<>>, "-", ~ dry_run, line, CurFS,
                                     prompts, FALSE)
    /\ UNCHANGED <<command, dry_run, use_hard_links, all_songs, fsize, dev,
                   artists, pj, processed_pairs, history>>

\* process_multi_live, 's': one iteration of the loop over the albums
LiveSelect ==
    /\ pc = "live_select"
    /\ LET albums == artists[Unwrap(cur)]
           album == albums[album_keys[pi]]
       IN  \E line \in LiveLines :
             LET f2 == IF read_yes_no(line)
                       THEN live_delete_album(CurFS, album, dry_run)
                       ELSE CurFS
             IN  /\ fs' = f2.ino
                 /\ dirs' = f2.dirs
                 /\ mutated' = (mutated \/ f2.ino # fs)
                 /\ prompts' = prompts + 1
                 /\ ret' = LoopAt @@
                            MkRet("select_live", Unwrap(cur), album_keys[pi], <<>>,
                                  "-", TRUE, line, CurFS, prompts, FALSE)
    /\ IF pi < Len(album_keys)
       THEN pc' = "live_select" /\ pi' = pi + 1
       ELSE pc' = "live_artists" /\ pi' = 0
    /\ UNCHANGED <<command, dry_run, use_hard_links, all_songs, fsize, dev,
                   artists, todo, cur, album_keys, pj, processed_pairs, history>>

\* lives::run returning while artists are still to be visited
LiveFinish_before_last_artist ==
    /\ pc = "live_artists"
    /\ pc' = "done"
    /\ ret' = MkRet("finish", <<>>, <<>>, <<>>, "-", FALSE, <<>>, CurFS, prompts, FALSE)
    /\ UNCHANGED <<command, dry_run, use_hard_links, all_songs, fs, fsize, dirs,
                   dev, artists, todo, cur, album_keys, pi, pj, prompts, mutated,
                   processed_pairs, history>>

\* the loop over sorted_artists is exhausted: run returns
LiveFinish ==
    /\ pc = "live_artists"
    /\ todo = {}
    /\ pc' = "done"
    /\ ret' = MkRet("finish", <<>>, <<>>, <<>>, "-", FALSE, <<>>, CurFS, prompts, FALSE)
    /\ UNCHANGED <<command, dry_run, use_hard_links, all_songs, fs, fsize, dirs,
                   dev, artists, todo, cur, album_keys, pi, pj, prompts, mutated,
                   processed_pairs, history>>

Next ==
    \/ BuildHierarchy
    \/ RemoveRedundantSingles
    \/ ProcessPair
    \/ Finish
    \/ GroupLive
    \/ LiveArtist
    \/ LiveSelect
    \/ LiveFinish

Spec == Init /\ [][Next]_vars

\* ------------------------------------------------------------------------
\* is_same_song and compare_albums on their own
\* ------------------------------------------------------------------------
IsrcValues == {None, Some(<<>>), Some(<<"A","1">>), Some(<<"B","2">>)}

TitleValues == {None, Some(<<"t">>), Some(<<"T","!">>), Some(<<"u">>)}

\* 0 is a file that is no longer there
SizeValues == {0, 50, 100, 199, 200, 201, 300}

SongKinds == [isrc : IsrcValues, title : TitleValues, size : SizeValues]

IdTable(S) == [k \in S |-> k]

InitSame ==
    /\ command = "is_same_song"
    /\ dry_run = FALSE
    /\ use_hard_links = FALSE
    /\ \E kinds \in [1..2 -> SongKinds] :
          InitRun(<<1, 2>>, kinds, IdTable(SongKinds)) /\ dev = OneDevice

CallIsSameSong ==
    /\ pc = "start"
    /\ command = "is_same_song"
    /\ ret' = [ev  |-> "is_same_song",
               val |-> is_same_song(all_songs[1], all_songs[2], CurFS),
               rev |-> is_same_song(all_songs[2], all_songs[1], CurFS)]
    /\ pc' = "done"
    /\ UNCHANGED <<command, dry_run, use_hard_links, all_songs, fs, fsize, dirs,
                   dev, artists, todo, cur, album_keys, pi, pj, prompts, mutated,
                   processed_pairs, history>>

NextSame == CallIsSameSong

SpecSame == InitSame /\ [][NextSame]_vars

\* the songs two albums of one artist are made of
AlbumKinds ==
    << [isrc |-> Some(<<"A","1">>), title |-> Some(<<"t">>),     size |-> 200],
       [isrc |-> None,              title |-> Some(<<"T","!">>), size |-> 200],
       [isrc |-> None,              title |-> Some(<<"t">>),     size |-> 199],
       [isrc |-> Some(<<"B","2">>), title |-> Some(<<"u">>),     size |-> 300] >>

\* album A of na tracks followed by album B of nb tracks
PairLayouts ==
    {[i \in 1..(na + nb) |-> IF i <= na THEN 1 ELSE 2] :
        na \in 1..MaxAlbumLen, nb \in 1..MaxAlbumLen}

InitCmp ==
    /\ command = "compare_albums"
    /\ dry_run = FALSE
    /\ use_hard_links = FALSE
    /\ \E layout \in PairLayouts :
       \E kinds \in [DOMAIN layout -> DOMAIN AlbumKinds] :
          InitRun(layout, kinds, AlbumKinds) /\ dev = OneDevice

AlbumOfSlot(h, slot) ==
    h[normalize_str(Slots[slot].artist)].albums[normalize_str(Slots[slot].album)]

CallCompareAlbums ==
    /\ pc = "start"
    /\ command = "compare_albums"
    /\ artists' = build_hierarchy(all_songs, 1, <<>>)
    /\ ret' = [ev |-> "compare_albums",
               ab |-> compare_albums(AlbumOfSlot(artists', 1),
                                     AlbumOfSlot(artists', 2), CurFS),
               ba |-> compare_albums(AlbumOfSlot(artists', 2),
                                     AlbumOfSlot(artists', 1), CurFS)]
    /\ pc' = "done"
    /\ UNCHANGED <<command, dry_run, use_hard_links, all_songs, fs, fsize, dirs,
                   dev, todo, cur, album_keys, pi, pj, prompts, mutated,
                   processed_pairs, history>>

NextCmp == CallCompareAlbums

SpecCmp == InitCmp /\ [][NextCmp]_vars

\* ========================================================================
\* Properties
\* ========================================================================
Relations == {"Identical", "Subset", "Superset", "PartialOverlap", "Disjoint"}

\* a file was there before the last step and is gone after it
Removed(p) == ret.before.ino[p] # Absent /\ fs[p] = Absent

\* the path names another file, or none, after the last step
Changed(p) == ret.before.ino[p] # fs[p]

PathsOf(album) == {Unwrap(album.songs[k].file_path) : k \in DOMAIN album.songs}

\* C1: in a dry run of dedup::run or lives::run the filesystem stays what it
\* was when the run started (no file deleted, no directory removed, no hard
\* link created) and no operator response is read.
DryRunHasNoEffect ==
    dry_run =>
        /\ fs = history.start.ino
        /\ dirs = history.start.dirs
        /\ prompts = 0
        /\ ~ mutated

\* C1 witness: a dry run met a single that the pre-pass reports as redundant
DryRunMetRedundantSingle ==
    /\ dry_run
    /\ ret.ev = "singles"
    /\ history.flagged # {}

\* C2: compare_albums(A, B) is the relation the number of songs of A that
\* match some song of B determines: Disjoint for 0, Identical for
\* matches = a = b, Subset for matches = a < b, Superset for matches = b < a,
\* PartialOverlap otherwise.
MatchingSongs(A, B, f) ==
    {i \in DOMAIN A.songs :
        \E j \in DOMAIN B.songs : is_same_song(A.songs[i], B.songs[j], f)}

RelationOf(matches, a, b) ==
    CASE matches = 0 -> "Disjoint"
      [] matches > 0 /\ matches = a /\ a = b -> "Identical"
      [] matches > 0 /\ matches = a /\ a < b -> "Subset"
      [] matches > 0 /\ matches = b /\ b < a -> "Superset"
      [] OTHER -> "PartialOverlap"

CompareAlbumsClassifies ==
    ret.ev = "compare_albums" =>
        LET A == AlbumOfSlot(artists, 1)
            B == AlbumOfSlot(artists, 2)
        IN  /\ ret.ab \in Relations
            /\ ret.ab = RelationOf(Cardinality(MatchingSongs(A, B, CurFS)),
                                   Len(A.songs), Len(B.songs))

\* C2 witness: a song of A matches two songs of B and A is found a subset
CompareAlbumsFoundSubset ==
    /\ ret.ev = "compare_albums"
    /\ ret.ab = "Subset"
    /\ \E i \in DOMAIN AlbumOfSlot(artists, 1).songs :
          Cardinality({j \in DOMAIN AlbumOfSlot(artists, 2).songs :
              is_same_song(AlbumOfSlot(artists, 1).songs[i],
                           AlbumOfSlot(artists, 2).songs[j], CurFS)}) > 1

\* C3: swapping the arguments of compare_albums turns Subset into Superset
\* and back, and leaves Identical, Disjoint and PartialOverlap unchanged.
CompareAlbumsSwapInverts ==
    ret.ev = "compare_albums" =>
        /\ (ret.ab = "Subset") <=> (ret.ba = "Superset")
        /\ \A R \in {"Identical", "Disjoint", "PartialOverlap"} :
              (ret.ab = R) <=> (ret.ba = R)

\* C4: for two songs whose ISRC is absent or non-empty, is_same_song is ISRC
\* equality when both ISRCs are present, and otherwise holds exactly when the
\* normalized titles are equal and both file sizes are non-zero and differ by
\* less than 1% (of the first song's size).
RealIsrc(song) == IsSome(song.isrc) => Unwrap(song.isrc) # <<>>

WithinOnePercent(s_a, s_b) == 100 * Abs(s_a - s_b) < s_a

IsSameSongDecides ==
    (ret.ev = "is_same_song" /\ RealIsrc(all_songs[1]) /\ RealIsrc(all_songs[2])) =>
        LET a == all_songs[1]
            b == all_songs[2]
            s_a == get_file_size(CurFS, Unwrap(a.file_path))
            s_b == get_file_size(CurFS, Unwrap(b.file_path))
        IN  ret.val =
              IF IsSome(a.isrc) /\ IsSome(b.isrc)
              THEN Unwrap(a.isrc) = Unwrap(b.isrc)
              ELSE /\ normalize_str(a.title) = normalize_str(b.title)
                   /\ s_a > 0 /\ s_b > 0
                   /\ WithinOnePercent(s_a, s_b)

\* ------------------------------------------------------------------------
\* the steps of dedup::run
\* ------------------------------------------------------------------------
StepArtist == artists[ret.artist]

\* the songs (album key, index) of the artist of the last step stored under p
SongsAt(p) ==
    UNION {{<<key, k>> : k \in {i \in DOMAIN StepArtist.albums[key].songs :
                                   StepArtist.albums[key].songs[i].file_path = Some(p)}} :
           key \in DOMAIN StepArtist.albums}

SongAt(t) == StepArtist.albums[t[1]].songs[t[2]]

\* the song has a match in another album of more than 2 tracks, as the files
\* were before the last step
HasParent(key, song) ==
    \E key2 \in DOMAIN StepArtist.albums \ {key} :
        /\ Len(StepArtist.albums[key2].songs) > SingleMaxTracks
        /\ \E j \in DOMAIN StepArtist.albums[key2].songs :
              is_same_song(song, StepArtist.albums[key2].songs[j], ret.before)

\* C5: the pre-pass removes files of an album of at most 2 tracks only when
\* every track of that album matches a track of another album of more than 2
\* tracks: of a 2-track album with one matched track no file is removed.
SinglesRemovedOnlyWhole ==
    ret.ev = "singles" =>
        \A key \in DOMAIN StepArtist.albums :
            (\E p \in PathsOf(StepArtist.albums[key]) : Changed(p)) =>
                \A k \in DOMAIN StepArtist.albums[key].songs :
                    HasParent(key, StepArtist.albums[key].songs[k])

\* C6: every file the pre-pass deletes is a track of an album of at most 2
\* tracks and matches a song of another album of more than 2 tracks, whose
\* file the pre-pass leaves alone.
SinglesSpareFullAlbums ==
    ret.ev = "singles" =>
        \A p \in DOMAIN fs :
            Changed(p) =>
                /\ Removed(p)
                /\ SongsAt(p) # {}
                /\ \A t \in SongsAt(p) :
                      /\ Len(StepArtist.albums[t[1]].songs) <= SingleMaxTracks
                      /\ \E key2 \in DOMAIN StepArtist.albums \ {t[1]} :
                            /\ Len(StepArtist.albums[key2].songs) > SingleMaxTracks
                            /\ \E j \in DOMAIN StepArtist.albums[key2].songs :
                                  LET m == StepArtist.albums[key2].songs[j]
                                  IN  /\ is_same_song(SongAt(t), m, ret.before)
                                      /\ ~ Changed(Unwrap(m.file_path))

\* C6 witness: the pre-pass deleted a file
SinglesDeletedAFile ==
    /\ ret.ev = "singles"
    /\ \E p \in DOMAIN fs : Removed(p)

\* C7: a file is deleted or replaced by a hard link only after an
\* affirmative operator response for the album pair, or when the song has
\* the ISRC of a song of another album of the artist that justifies it.
Affirmative(line) == line \in {<<"Y", " ">>, <<"y", "e", "s">>}

ChoseDeletion(line) == line \in {<<"1">>, <<"2">>}

Confirmed ==
    /\ ret.asked
    /\ IF ret.rel = "Identical" THEN ChoseDeletion(ret.line)
       ELSE Affirmative(ret.line)

IsrcJustified(p) ==
    \E t \in SongsAt(p) :
        \E key2 \in DOMAIN StepArtist.albums \ {t[1]} :
            \E j \in DOMAIN StepArtist.albums[key2].songs :
                LET m == StepArtist.albums[key2].songs[j]
                IN  /\ IsSome(SongAt(t).isrc) /\ IsSome(m.isrc)
                    /\ SongAt(t).isrc = m.isrc

IrreversibleOnlyWhenCertain ==
    ret.ev \in {"singles", "pair"} =>
        \A p \in DOMAIN fs : Changed(p) => (Confirmed \/ IsrcJustified(p))

\* C8: no step of dedup::run evaluates is_same_song (in the pre-pass or in
\* compare_albums) after a file was deleted or hard-linked in the run.
AnalysisBeforeMutation ==
    ret.ev \in {"singles", "pair"} => ~ ret.dirty

\* C9: process_albums does not compare an album the pre-pass reported as a
\* redundant single with the album it was reported against.
FlaggedPairNotCompared ==
    (ret.ev = "pair" /\ ret.rel # "-") =>
        /\ <<ret.artist, ret.a, ret.b>> \notin history.flagged
        /\ <<ret.artist, ret.b, ret.a>> \notin history.flagged

\* C10: for a Subset (Superset) pair in a non-dry run one response is read;
\* on an affirmative response every file of A (of B) is gone and every other
\* path is as before; on any other response nothing changes.
SubsetDeletesOnlyOnYes ==
    (ret.ev = "pair" /\ ~ dry_run /\ ret.rel \in {"Subset", "Superset"}) =>
        LET contained == IF ret.rel = "Subset" THEN StepArtist.albums[ret.a]
                         ELSE StepArtist.albums[ret.b]
        IN  /\ prompts = ret.prompts_before + 1
            /\ IF Affirmative(ret.line)
               THEN /\ \A p \in PathsOf(contained) : fs[p] = Absent
                    /\ \A p \in DOMAIN fs \ PathsOf(contained) : ~ Changed(p)
               ELSE fs = ret.before.ino /\ dirs = ret.before.dirs

\* C10 witness: the operator agreed to delete the contained album of a
\* Superset pair and its files went away
SupersetAlbumDeleted ==
    /\ ret.ev = "pair"
    /\ ~ dry_run
    /\ ret.rel = "Superset"
    /\ Affirmative(ret.line)
    /\ \E p \in PathsOf(StepArtist.albums[ret.b]) : Removed(p)

\* the album has lost every file it had before the last step
AlbumGone(album) ==
    /\ \E p \in PathsOf(album) : Removed(p)
    /\ \A p \in PathsOf(album) : fs[p] = Absent

\* C11: for an Identical pair in a non-dry run, the response 1 leaves no file
\* of A and every other path as before, the response 2 the same with B, and
\* on any other response (keep both) neither album is gone and, without
\* --hard-link, nothing changes at all: only keep-both with hard-linking on
\* may touch a path.
IdenticalChoiceDecides ==
    (ret.ev = "pair" /\ ~ dry_run /\ ret.rel = "Identical") =>
        LET album_a == StepArtist.albums[ret.a]
            album_b == StepArtist.albums[ret.b]
        IN  CASE ret.line = <<"1">> ->
                   /\ \A p \in PathsOf(album_a) : fs[p] = Absent
                   /\ \A p \in DOMAIN fs \ PathsOf(album_a) : ~ Changed(p)
              [] ret.line = <<"2">> ->
                   /\ \A p \in PathsOf(album_b) : fs[p] = Absent
                   /\ \A p \in DOMAIN fs \ PathsOf(album_b) : ~ Changed(p)
              [] OTHER ->
                   /\ ~ AlbumGone(album_a)
                   /\ ~ AlbumGone(album_b)
                   /\ ~ use_hard_links =>
                          fs = ret.before.ino /\ dirs = ret.before.dirs

\* the response of the last step is one its prompt acts on: 1 or 2 at the
\* Identical prompt, d, s or q at the live-album menu, y or yes elsewhere
Recognised ==
    IF ret.ev = "pair" /\ ret.rel = "Identical" THEN ChoseDeletion(ret.line)
    ELSE IF ret.ev = "multi_live" THEN ret.line \in {<<"d">>, <<"s">>, <<"q">>}
    ELSE Affirmative(ret.line)

Defaulted == ret.asked /\ ~ Recognised

\* C12 as stated: after an empty or unrecognised response the filesystem is
\* what it was before the prompt, with hard-linking enabled too.
DefaultInputIsNoOp ==
    Defaulted => fs = ret.before.ino /\ dirs = ret.before.dirs

\* p is a track of album_b that the hard-link pass may replace: a different,
\* equally sized file of album_a exists, and p now names a file of album_a
\* or no file
LinkTarget(p, album_a, album_b) ==
    /\ p \in PathsOf(album_b)
    /\ \E q \in PathsOf(album_a) :
          /\ q # p
          /\ ret.before.ino[q] # ret.before.ino[p]
          /\ get_file_size(ret.before, q) = get_file_size(ret.before, p)
    /\ fs[p] \in {Absent} \cup {ret.before.ino[q] : q \in PathsOf(album_a)}

\* C12 (amended): after an empty or unrecognised response nothing changes at
\* a yes/no prompt, at the live-album menu, and at the Identical prompt
\* without --hard-link; with --hard-link the Identical prompt's keep-both
\* default touches only tracks of B that have an equally sized counterpart
\* file in A, and removes no directory.
DefaultInputKeepsOrLinks ==
    Defaulted =>
        IF ret.ev = "pair" /\ ret.rel = "Identical" /\ use_hard_links
        THEN /\ dirs = ret.before.dirs
             /\ \A p \in DOMAIN fs :
                   Changed(p) => LinkTarget(p, StepArtist.albums[ret.a],
                                            StepArtist.albums[ret.b])
        ELSE fs = ret.before.ino /\ dirs = ret.before.dirs

\* C12 witness: Enter at the Identical prompt with --hard-link made a track of
\* B a link to a file of A
DefaultInputLinkedATrack ==
    /\ Defaulted
    /\ ret.ev = "pair"
    /\ ret.rel = "Identical"
    /\ ret.line = <<>>
    /\ use_hard_links
    /\ \E p \in DOMAIN fs : Changed(p) /\ fs[p] # Absent

\* ------------------------------------------------------------------------
\* try_hard_link_albums on two one-track albums, run and then run again
\* ------------------------------------------------------------------------
LinkKinds == [isrc : {None, Some(<<"A","1">>)}, title : {Some(<<"t">>)},
              size : {0, 199, 200}]

InitLink ==
    /\ command = "hard_link"
    /\ dry_run \in BOOLEAN
    /\ use_hard_links = TRUE
    /\ dev \in Devices
    /\ \E kinds \in [1..2 -> LinkKinds] :
          InitRun(<<1, 2>>, kinds, IdTable(LinkKinds))

AlbumOfSong(song) == [name |-> Unwrap(song.album), songs |-> <<song>>]

CallTryHardLink ==
    /\ pc \in {"start", "linked"}
    /\ command = "hard_link"
    /\ LET f2 == try_hard_link_albums(CurFS, AlbumOfSong(all_songs[1]),
                                      AlbumOfSong(all_songs[2]), dry_run)
       IN  /\ fs' = f2.ino
           /\ dirs' = f2.dirs
           /\ mutated' = (mutated \/ f2.ino # fs)
           /\ ret' = [ev     |-> "hard_link",
                      same   |-> is_same_song(all_songs[1], all_songs[2], CurFS),
                      before |-> CurFS]
    /\ pc' = IF pc = "start" THEN "linked" ELSE "done"
    /\ UNCHANGED <<command, dry_run, use_hard_links, all_songs, fsize, dev,
                   artists, todo, cur, album_keys, pi, pj, prompts,
                   processed_pairs, history>>

NextLink == CallTryHardLink

SpecLink == InitLink /\ [][NextLink]_vars

\* the two files of a hard-link attempt and the three checks made on them
LinkSrc == Unwrap(all_songs[1].file_path)

LinkTgt == Unwrap(all_songs[2].file_path)

SameInode(f, p1, p2) ==
    /\ f.ino[p1] # Absent
    /\ f.ino[p1] = f.ino[p2]
    /\ dev[parent(p1)] = dev[parent(p2)]

SizeOf(f, p) == IF f.ino[p] = Absent THEN 0 ELSE fsize[f.ino[p]]

LinkAllowed(f, src, tgt) ==
    /\ src # tgt
    /\ ~ SameInode(f, src, tgt)
    /\ SizeOf(f, src) = SizeOf(f, tgt)

\* C13: in a non-dry hard-link attempt from src to target, a path changes
\* only when the paths differ, the files are not one inode on one device and
\* their sizes are equal; when a check fails nothing changes; and when the
\* checks pass for two existing files of one song, target ends as a link to
\* the file of src, which stays in place.
HardLinkOnlyWhenSafe ==
    (ret.ev = "hard_link" /\ ~ dry_run) =>
        LET before == ret.before
            allowed == LinkAllowed(before, LinkSrc, LinkTgt)
        IN  /\ (\E p \in DOMAIN fs : Changed(p)) => allowed
            /\ ~ allowed => fs = before.ino /\ dirs = before.dirs
            /\ (allowed /\ ret.same /\ before.ino[LinkTgt] # Absent) =>
                  /\ fs[LinkSrc] = before.ino[LinkSrc]
                  /\ fs[LinkTgt] = before.ino[LinkSrc]
                  /\ fs[LinkTgt] # Absent

\* the paths the last step set out to delete
VictimPaths ==
    IF ret.ev = "pair" /\ Confirmed /\ ret.rel \in {"Identical", "Subset", "Superset"}
    THEN PathsOf(StepArtist.albums[
             IF ret.rel = "Subset" \/ (ret.rel = "Identical" /\ ret.line = <<"1">>)
             THEN ret.a ELSE ret.b])
    ELSE IF ret.ev = "single_live" /\ ret.asked /\ Affirmative(ret.line)
    THEN Range(StepArtist[album_keys[1]].paths)
    ELSE IF ret.ev = "multi_live" /\ ret.asked /\ ret.line = <<"d">>
    THEN UNION {Range(StepArtist[key].paths) : key \in DOMAIN StepArtist}
    ELSE IF ret.ev = "select_live" /\ Affirmative(ret.line)
    THEN Range(StepArtist[ret.a].paths)
    ELSE {}

\* a remove_file of the last step met a file that was not there
DeleteFailed == \E p \in VictimPaths : ret.before.ino[p] = Absent

\* the last step ran try_hard_link_albums
LinkPass ==
    /\ ret.ev = "pair"
    /\ ~ dry_run
    /\ use_hard_links
    /\ \/ ret.rel = "PartialOverlap"
       \/ ret.rel = "Identical" /\ ~ ChoseDeletion(ret.line)

\* a hard_link of the last step failed after its target was removed
LinkFailed == LinkPass /\ \E p \in DOMAIN fs : Removed(p)

FailedAction == DeleteFailed \/ LinkFailed

\* the track of B is one the hard-link pass has to replace
MustLink(song_b, album_a) ==
    \E ka \in DOMAIN album_a.songs :
        LET path_a == Unwrap(album_a.songs[ka].file_path)
            path_b == Unwrap(song_b.file_path)
        IN  /\ is_same_song(album_a.songs[ka], song_b, ret.before)
            /\ ret.before.ino[path_b] # Absent
            /\ ~ are_files_hard_linked(ret.before, path_a, path_b)
            /\ get_file_size(ret.before, path_a) = get_file_size(ret.before, path_b)

\* every file the last step had to delete is gone and every track it had to
\* link was replaced
RemainingFilesDone ==
    /\ \A p \in VictimPaths : fs[p] = Absent
    /\ LinkPass =>
          \A kb \in DOMAIN StepArtist.albums[ret.b].songs :
              LET song_b == StepArtist.albums[ret.b].songs[kb]
              IN  MustLink(song_b, StepArtist.albums[ret.a]) =>
                      Changed(Unwrap(song_b.file_path))

\* the loops stand at the pair, album or artist that follows the one of the
\* last step
LoopsAdvanced ==
    /\ ret.at.pc = "albums" =>
          /\ todo = ret.at.todo
          /\ IF ret.at.pj < ret.at.n
             THEN pc = "albums" /\ pi = ret.at.pi /\ pj = ret.at.pj + 1
             ELSE IF ret.at.pi + 1 < ret.at.n
             THEN pc = "albums" /\ pi = ret.at.pi + 1 /\ pj = ret.at.pi + 2
             ELSE pc = "artists"
    /\ ret.at.pc = "live_artists" =>
          /\ pc = "live_artists"
          /\ todo = ret.at.todo \ {Unwrap(cur)}
    /\ ret.at.pc = "live_select" =>
          /\ todo = ret.at.todo
          /\ IF ret.at.pi < ret.at.n
             THEN pc = "live_select" /\ pi = ret.at.pi + 1
             ELSE pc = "live_artists"

\* C14: a step in which a remove_file or a hard_link failed has still deleted
\* every other file it had to delete and replaced every other track it had to
\* link, and has left the run at the next pair, album or artist of its loops.
FailureNotFatal ==
    FailedAction => (RemainingFilesDone /\ LoopsAdvanced)

\* C14 witness: a live album with a missing file was deleted, its other file
\* went away and the next artist is still to come
FailedDeleteWentOn ==
    /\ command = "lives"
    /\ DeleteFailed
    /\ \E p \in VictimPaths : Removed(p)
    /\ pc = "live_artists"
    /\ todo # {}

\* ------------------------------------------------------------------------
\* dedup::run, step 1 alone, on songs with any artist and album tags
\* ------------------------------------------------------------------------
HierSongs == 3

ArtistTags == {None, Some(<<"x">>), Some(<<"X", "!">>), Some(<<"y", " ">>)}

AlbumTags == {None, Some(<<"!">>), Some(<<"x">>), Some(<<"X", "!">>)}

TaggedSong(i, artist, album) ==
    [title     |-> Some(<<"t">>),
     artist    |-> artist,
     album     |-> album,
     isrc      |-> None,
     file_path |-> Some(<<1, i>>)]

InitHier ==
    /\ command = "build_hierarchy"
    /\ dry_run = TRUE
    /\ use_hard_links = FALSE
    /\ \E tags \in [1..HierSongs -> ArtistTags \X AlbumTags] :
          all_songs = [i \in 1..HierSongs |-> TaggedSong(i, tags[i][1], tags[i][2])]
    /\ fs = [p \in {<<1, i>> : i \in 1..HierSongs} |-> p[2]]
    /\ fsize = [i \in 1..HierSongs |-> 200]
    /\ dirs = {1}
    /\ dev = OneDevice
    /\ artists = <<>>
    /\ pc = "start"
    /\ todo = {}
    /\ cur = None
    /\ album_keys = <<>>
    /\ pi = 0
    /\ pj = 0
    /\ prompts = 0
    /\ mutated = FALSE
    /\ processed_pairs = {}
    /\ history = [flagged |-> {}, start |-> CurFS]
    /\ ret = NoRet

CallBuildHierarchy ==
    /\ pc = "start"
    /\ command = "build_hierarchy"
    /\ artists' = build_hierarchy(all_songs, 1, <<>>)
    /\ pc' = "built"
    /\ ret' = [ev |-> "build_hierarchy"]
    /\ UNCHANGED <<command, dry_run, use_hard_links, all_songs, fs, fsize, dirs,
                   dev, todo, cur, album_keys, pi, pj, prompts, mutated,
                   processed_pairs, history>>

NextHier == CallBuildHierarchy

SpecHier == InitHier /\ [][NextHier]_vars

\* where song i sits in the hierarchy: (artist key, album key, index)
PlacesOf(i) ==
    UNION {UNION {{<<ka, kb, k>> : k \in {n \in DOMAIN artists[ka].albums[kb].songs :
                                        artists[ka].albums[kb].songs[n] = all_songs[i]}} :
                  kb \in DOMAIN artists[ka].albums} :
           ka \in DOMAIN artists}

\* C15: once the hierarchy is built, a song is in it exactly when its
\* normalized artist and normalized album are both non-empty; a song in it
\* sits at one place, under these two keys; and no album entry is empty.
HierarchyHoldsTaggedSongs ==
    (ret.ev = "build_hierarchy") =>
        /\ \A i \in DOMAIN all_songs :
              LET artist_norm == normalize_str(all_songs[i].artist)
                  album_norm == normalize_str(all_songs[i].album)
              IN  IF artist_norm # <<>> /\ album_norm # <<>>
                  THEN /\ Cardinality(PlacesOf(i)) = 1
                       /\ \A t \in PlacesOf(i) : t[1] = artist_norm /\ t[2] = album_norm
                  ELSE PlacesOf(i) = {}
        /\ \A ka \in DOMAIN artists :
              /\ DOMAIN artists[ka].albums # {}
              /\ \A kb \in DOMAIN artists[ka].albums :
                    artists[ka].albums[kb].songs # <<>>

\* C15 witness: a song without artist was left out and two songs tagged x and
\* X! share one album entry
HierarchyMergedSpellings ==
    /\ ret.ev = "build_hierarchy"
    /\ \E i \in DOMAIN all_songs : PlacesOf(i) = {}
    /\ \E ka \in DOMAIN artists : \E kb \in DOMAIN artists[ka].albums :
          \E m, n \in DOMAIN artists[ka].albums[kb].songs :
              artists[ka].albums[kb].songs[m].album # artists[ka].albums[kb].songs[n].album

\* ------------------------------------------------------------------------
\* SongMetadata::normalize_str on any short text
\* ------------------------------------------------------------------------
MaxText == 5

NormChars == {"A", "b", "1", " ", "-", CapitalIDot}

Texts == UNION {[1..n -> NormChars] : n \in 0..MaxText}

InitNorm ==
    /\ command = "normalize_str"
    /\ dry_run = TRUE
    /\ use_hard_links = FALSE
    /\ \E input \in {None} \cup {Some(t) : t \in Texts} :
          all_songs = <<TaggedSong(1, input, input)>>
    /\ fs = [p \in {<<1, 1>>} |-> 1]
    /\ fsize = <<200>>
    /\ dirs = {1}
    /\ dev = OneDevice
    /\ artists = <<>>
    /\ pc = "start"
    /\ todo = {}
    /\ cur = None
    /\ album_keys = <<>>
    /\ pi = 0
    /\ pj = 0
    /\ prompts = 0
    /\ mutated = FALSE
    /\ processed_pairs = {}
    /\ history = [flagged |-> {}, start |-> CurFS]
    /\ ret = NoRet

CallNormalizeStr ==
    /\ pc = "start"
    /\ command = "normalize_str"
    /\ LET out == normalize_str(all_songs[1].artist)
       IN  ret' = [ev    |-> "normalize_str",
                   input |-> all_songs[1].artist,
                   out   |-> out,
                   again |-> normalize_str(Some(out))]
    /\ pc' = "done"
    /\ UNCHANGED <<command, dry_run, use_hard_links, all_songs, fs, fsize, dirs,
                   dev, artists, todo, cur, album_keys, pi, pj, prompts, mutated,
                   processed_pairs, history>>

NextNorm == CallNormalizeStr

SpecNorm == InitNorm /\ [][NextNorm]_vars

\* C16: normalizing the result of normalize_str gives that result again, for
\* a text and for an absent input.
NormalizeIdempotent ==
    (ret.ev = "normalize_str") => ret.again = ret.out

\* C16 witness: a text that normalize_str shortened by two characters or
\* more, keeping a space inside
NormalizeChangedText ==
    /\ ret.ev = "normalize_str"
    /\ IsSome(ret.input)
    /\ ret.out # <<>>
    /\ Len(ret.out) + 2 <= Len(Unwrap(ret.input))
    /\ \E i \in DOMAIN ret.out : ret.out[i] = " "

\* C17: the result of normalize_str holds only lowercase letters, digits and
\* whitespace, neither starts nor ends with whitespace, and has no two
\* whitespace characters in a row.
NormalizedKeyCollapsed ==
    (ret.ev = "normalize_str") =>
        /\ \A i \in DOMAIN ret.out :
              ret.out[i] \in Range(LowerChars) \cup Range(DigitChars) \cup {" ", "\t", "\n"}
        /\ ret.out # <<>> =>
              ret.out[1] \notin {" ", "\t", "\n"} /\ ret.out[Len(ret.out)] \notin {" ", "\t", "\n"}
        /\ \A i \in 1..(Len(ret.out) - 1) :
              ~ (ret.out[i] \in {" ", "\t", "\n"} /\ ret.out[i + 1] \in {" ", "\t", "\n"})

\* ------------------------------------------------------------------------
\* library.rs: Library::new.  A scanned path is <<directory, name,
\* extension>>; the tags SongMetadata::from reads from it are the record's.
\* ------------------------------------------------------------------------
SUPPORTED_EXTENSIONS == {<<"f", "l", "a", "c">>}

\* ext.eq_ignore_ascii_case(s) for one of the supported extensions
IsSupported(song) ==
    to_lowercase(Unwrap(song.file_path)[3]) \in SUPPORTED_EXTENSIONS

SongKey(song) == <<normalize_str(song.title), normalize_str(song.artist)>>

\* fold: the songs of one chunk pushed onto the map of that chunk
RECURSIVE fold_songs(_, _, _)
fold_songs(songs, k, acc) ==
    IF k > Len(songs) THEN acc
    ELSE LET key == SongKey(songs[k])
             entry == IF key \in DOMAIN acc THEN acc[key] ELSE <<>>
             rest == [x \in DOMAIN acc \ {key} |-> acc[x]]
         IN  fold_songs(songs, k + 1, (key :> Append(entry, songs[k])) @@ rest)

\* reduce whose closure inserts the bucket of map in place of that of acc
reduce_maps_insert(acc, map) ==
    [key \in DOMAIN acc \cup DOMAIN map |->
        IF key \in DOMAIN map THEN map[key] ELSE acc[key]]

\* reduce: the buckets of map appended to those of acc
reduce_maps(acc, map) ==
    [key \in DOMAIN acc \cup DOMAIN map |->
        (IF key \in DOMAIN acc THEN acc[key] ELSE <<>>)
        \o (IF key \in DOMAIN map THEN map[key] ELSE <<>>)]

\* the chunks the pool makes of the supported files when it splits after
\* the positions in cuts, each folded into a map of its own
chunk_maps(kept, cuts) ==
    LET bounds == {0, Len(kept)} \cup cuts
        starts == {b \in bounds : b < Len(kept)}
        nth(k) == CHOOSE b \in starts : Cardinality({c \in starts : c < b}) = k - 1
        stop(b) == CHOOSE e \in bounds : e > b /\ \A x \in bounds : x > b => e <= x
    IN  [k \in 1..Cardinality(starts) |->
            fold_songs(SubSeq(kept, nth(k) + 1, stop(nth(k))), 1, <<>>)]

\* the maps reduce can return for a row of chunk maps: adjacent results are
\* combined, left before right, in any grouping
RECURSIVE reduce_results(_)
reduce_results(maps) ==
    IF Len(maps) = 0 THEN {<<>>}
    ELSE IF Len(maps) = 1 THEN {maps[1]}
    ELSE UNION {{reduce_maps(l, r) :
                    l \in reduce_results(SubSeq(maps, 1, k)),
                    r \in reduce_results(SubSeq(maps, k + 1, Len(maps)))} :
                k \in 1..(Len(maps) - 1)}

\* the supported files split into two chunks at cut, folded and reduced
library_new(files, cut) ==
    LET kept == SelectSeq(files, IsSupported)
        left == SubSeq(kept, 1, cut)
        right == SubSeq(kept, cut + 1, Len(kept))
    IN  reduce_maps(fold_songs(left, 1, <<>>), fold_songs(right, 1, <<>>))

LibFiles == 3

TitleTags == {None, Some(<<"t">>), Some(<<"T", "!">>)}

LibArtistTags == {None, Some(<<"x">>)}

Extensions == {<<"F", "L", "A", "C">>, <<"m", "p", "3">>}

ScannedFile(i, title, artist, ext) ==
    [title     |-> title,
     artist    |-> artist,
     album     |-> None,
     isrc      |-> None,
     file_path |-> Some(<<1, i, ext>>)]

InitLib ==
    /\ command = "library_new"
    /\ dry_run = TRUE
    /\ use_hard_links = FALSE
    /\ \E tags \in [1..LibFiles -> TitleTags \X LibArtistTags \X Extensions] :
          /\ all_songs = [i \in 1..LibFiles |->
                            ScannedFile(i, tags[i][1], tags[i][2], tags[i][3])]
          /\ fs = [p \in {<<1, i, tags[i][3]>> : i \in 1..LibFiles} |-> p[2]]
    /\ fsize = [i \in 1..LibFiles |-> 200]
    /\ dirs = {1}
    /\ dev = OneDevice
    /\ artists = <<>>
    /\ pc = "start"
    /\ todo = {}
    /\ cur = None
    /\ album_keys = <<>>
    /\ pi = 0
    /\ pj = 0
    /\ prompts = 0
    /\ mutated = FALSE
    /\ processed_pairs = {}
    /\ history = [flagged |-> {}, start |-> CurFS]
    /\ ret = NoRet

\* Library::new; the map it returns is kept in artists
CallLibraryNew ==
    /\ pc = "start"
    /\ command = "library_new"
    /\ \E cut \in 0..Len(SelectSeq(all_songs, IsSupported)) :
          /\ artists' = library_new(all_songs, cut)
          /\ ret' = [ev |-> "library_new", cut |-> cut]
    /\ pc' = "loaded"
    /\ UNCHANGED <<command, dry_run, use_hard_links, all_songs, fs, fsize, dirs,
                   dev, todo, cur, album_keys, pi, pj, prompts, mutated,
                   processed_pairs, history>>

\* Library::new with the files split into any number of chunks and the
\* chunk maps reduced in any grouping
CallLibraryNewSplit ==
    /\ pc = "start"
    /\ command = "library_new"
    /\ LET kept == SelectSeq(all_songs, IsSupported)
       IN  \E cuts \in SUBSET (1..(Len(kept) - 1)) :
           \E map \in reduce_results(chunk_maps(kept, cuts)) :
              /\ artists' = map
              /\ ret' = [ev |-> "library_new", cut |-> 0, cuts |-> cuts]
    /\ pc' = "loaded"
    /\ UNCHANGED <<command, dry_run, use_hard_links, all_songs, fs, fsize, dirs,
                   dev, todo, cur, album_keys, pi, pj, prompts, mutated,
                   processed_pairs, history>>

NextLib ==
    \/ CallLibraryNew
    \/ CallLibraryNewSplit

SpecLib == InitLib /\ [][NextLib]_vars

\* the buckets of the library map that hold the scanned file i
BucketsOf(i) ==
    {key \in DOMAIN artists : \E k \in DOMAIN artists[key] : artists[key][k] = all_songs[i]}

\* C18: in the map Library::new returns, a scanned flac file with a non-empty
\* normalized title is in the bucket (normalize(title), normalize(artist)) and
\* in no other, and a file whose normalized title is empty is in no bucket.
LibraryDropsUntitled ==
    (ret.ev = "library_new") =>
        \A i \in DOMAIN all_songs :
            IF IsSupported(all_songs[i]) /\ normalize_str(all_songs[i].title) # <<>>
            THEN BucketsOf(i) = {<<normalize_str(all_songs[i].title),
                                   normalize_str(all_songs[i].artist)>>}
            ELSE BucketsOf(i) = {}

\* ------------------------------------------------------------------------
\* ContentIdentityClassifier (spec 4.3): first-fit clustering of a duplicate
\* group against the first member of each cluster.  A member is a SongRecord
\* with its file size (0: unknown) and its duration in seconds.
\* ------------------------------------------------------------------------
SizeThresholdPct == 5

DurationTolerance == 3

Policies == {"size", "duration"}

has_isrc(r) == IsSome(r.isrc) /\ Unwrap(r.isrc) # <<>>

Larger(x, y) == IF x < y THEN y ELSE x

\* 1. ISRC on both sides decides; 2. else the configured signal, size or
\* duration, within its tolerance; 3. signal unknown: different
same_content(a, b, policy) ==
    IF has_isrc(a) /\ has_isrc(b) THEN a.isrc = b.isrc
    ELSE IF policy = "size"
    THEN /\ a.size # 0
         /\ b.size # 0
         /\ Abs(a.size - b.size) * 100 < SizeThresholdPct * Larger(a.size, b.size)
    ELSE /\ IsSome(a.duration)
         /\ IsSome(b.duration)
         /\ Abs(Unwrap(a.duration) - Unwrap(b.duration)) < DurationTolerance

\* the member appended to every cluster whose representative it matches
place_in_every_fit(member, clusters, policy) ==
    IF \E c \in DOMAIN clusters : same_content(clusters[c][1], member, policy)
    THEN [c \in DOMAIN clusters |->
             IF same_content(clusters[c][1], member, policy)
             THEN Append(clusters[c], member) ELSE clusters[c]]
    ELSE Append(clusters, <<member>>)

\* the member appended to the first cluster whose representative it matches,
\* or opening a cluster of its own
place_first_fit(member, clusters, policy) ==
    LET fits == {c \in DOMAIN clusters : same_content(clusters[c][1], member, policy)}
    IN  IF fits # {}
        THEN LET first == CHOOSE c \in fits : \A d \in fits : c <= d
             IN  [clusters EXCEPT ![first] = Append(@, member)]
        ELSE Append(clusters, <<member>>)

RECURSIVE cluster_group(_, _, _, _)
cluster_group(group, k, clusters, policy) ==
    IF k > Len(group) THEN clusters
    ELSE cluster_group(group, k + 1, place_first_fit(group[k], clusters, policy),
                       policy)

MaxGroup == 3

Measures == {[size |-> 100, duration |-> Some(180)],
             [size |-> 104, duration |-> Some(300)],
             [size |-> 200, duration |-> Some(182)],
             [size |-> 0,   duration |-> None]}

GroupIsrcs == {None, Some(<<"A", "1">>), Some(<<"B", "2">>)}

GroupMember(i, isrc, measure) ==
    [title     |-> Some(<<"t">>),
     artist    |-> Some(<<"x">>),
     album     |-> None,
     isrc      |-> isrc,
     file_path |-> Some(<<1, i>>),
     size      |-> measure.size,
     duration  |-> measure.duration]

InitCluster ==
    /\ command = "cluster"
    /\ dry_run = TRUE
    /\ use_hard_links = FALSE
    /\ \E kinds \in [1..MaxGroup -> GroupIsrcs \X Measures] :
          all_songs = [i \in 1..MaxGroup |-> GroupMember(i, kinds[i][1], kinds[i][2])]
    /\ fs = [p \in {<<1, i>> : i \in 1..MaxGroup} |-> p[2]]
    /\ fsize = [i \in 1..MaxGroup |-> all_songs[i].size]
    /\ dirs = {1}
    /\ dev = OneDevice
    /\ artists = <<>>
    /\ pc = "start"
    /\ todo = {}
    /\ cur = None
    /\ album_keys = <<>>
    /\ pi = 0
    /\ pj = 0
    /\ prompts = 0
    /\ mutated = FALSE
    /\ processed_pairs = {}
    /\ history = [flagged |-> {}, start |-> CurFS]
    /\ ret = NoRet

\* the classifier run on the group under one configured policy; the clusters
\* it returns are kept in artists
CallClusterGroup ==
    /\ pc = "start"
    /\ command = "cluster"
    /\ \E policy \in Policies :
          /\ artists' = cluster_group(all_songs, 1, <<>>, policy)
          /\ ret' = [ev |-> "cluster", policy |-> policy]
    /\ pc' = "clustered"
    /\ UNCHANGED <<command, dry_run, use_hard_links, all_songs, fs, fsize, dirs,
                   dev, todo, cur, album_keys, pi, pj, prompts, mutated,
                   processed_pairs, history>>

NextCluster == CallClusterGroup

SpecCluster == InitCluster /\ [][NextCluster]_vars

\* the places (cluster, index) of member i of the group
ClusterPlaces(i) ==
    UNION {{<<c, k>> : k \in {n \in DOMAIN artists[c] : artists[c][n] = all_songs[i]}} :
           c \in DOMAIN artists}

\* C19: the clusters of a group partition it: every member is at one place
\* of one cluster, no cluster is empty and every element of a cluster is a
\* member of the group.
ClustersPartitionGroup ==
    (ret.ev = "cluster") =>
        /\ \A i \in DOMAIN all_songs : Cardinality(ClusterPlaces(i)) = 1
        /\ \A c \in DOMAIN artists :
              /\ artists[c] # <<>>
              /\ \A k \in DOMAIN artists[c] : artists[c][k] \in Range(all_songs)

\* C19 witness: a group split into two clusters or more, one of them with a
\* member that joined a representative without ISRC
ClusteredIntoSeveral ==
    /\ ret.ev = "cluster"
    /\ Len(artists) >= 2
    /\ \E c \in DOMAIN artists :
          /\ Len(artists[c]) >= 2
          /\ ~ has_isrc(artists[c][1])

\* C20: two members of a group with equal non-empty ISRC are in the same
\* cluster.
EqualIsrcSameCluster ==
    (ret.ev = "cluster") =>
        \A i, j \in DOMAIN all_songs :
            (has_isrc(all_songs[i]) /\ has_isrc(all_songs[j])
                /\ all_songs[i].isrc = all_songs[j].isrc) =>
                \E c \in DOMAIN artists :
                    {all_songs[i], all_songs[j]} \subseteq Range(artists[c])

\* C21: two members of a group with differing non-empty ISRC are never in the
\* same cluster, whatever the order, the sizes and the durations, and also
\* when the representative of the cluster has no ISRC.
DifferingIsrcNeverMerged ==
    (ret.ev = "cluster") =>
        \A i, j \in DOMAIN all_songs :
            (has_isrc(all_songs[i]) /\ has_isrc(all_songs[j])
                /\ all_songs[i].isrc # all_songs[j].isrc) =>
                ~ \E c \in DOMAIN artists :
                      {all_songs[i], all_songs[j]} \subseteq Range(artists[c])

\* ------------------------------------------------------------------------
\* the end of a run
\* ------------------------------------------------------------------------
\* the last step read q at the menu of process_multi_live
QuitAnswered ==
    /\ ret.ev = "multi_live"
    /\ ret.asked
    /\ read_char(ret.line) = "q"

\* C22: q at the live-album menu ends the run on the spot: that step deletes
\* nothing, no step that prompts or deletes begins after it, and the artists
\* not yet visited stay unvisited; and a run ends in no other way before its
\* loop over the artists is exhausted.
QuitHaltsRun ==
    (command \in {"dedup", "lives"}) =>
        /\ QuitAnswered =>
              /\ pc = "exit"
              /\ fs = ret.before.ino
              /\ dirs = ret.before.dirs
              /\ prompts = ret.prompts_before + 1
              /\ todo = ret.at.todo \ {ret.artist}
        /\ pc = "exit" => QuitAnswered
        /\ "at" \in DOMAIN ret => ret.at.pc \notin {"exit", "done"}
        /\ pc = "done" => (todo = {} /\ ret.ev = "finish")

\* C22 witness: the operator quit at the menu of an artist with two live
\* albums while another artist was still to come; every file is in place
QuitLeftArtistUnvisited ==
    /\ QuitAnswered
    /\ pc = "exit"
    /\ todo # {}
    /\ \A p \in DOMAIN fs : fs[p] = history.start.ino[p]
    /\ \E p \in DOMAIN fs : fs[p] # Absent

\* ------------------------------------------------------------------------
\* what a relation says about the two track lists
\* ------------------------------------------------------------------------
\* every song of album B is the same song as some song of album A, whichever
\* of the two is_same_song is given first
CoveredBy(B, A, f) ==
    \A j \in DOMAIN B.songs :
        \E i \in DOMAIN A.songs :
            \/ is_same_song(A.songs[i], B.songs[j], f)
            \/ is_same_song(B.songs[j], A.songs[i], f)

\* C23: when compare_albums(A, B) is Superset every song of B matches a song
\* of A, and when it is Identical every song of B matches a song of A and
\* every song of A a song of B.
RelationMeansContainment ==
    (ret.ev = "compare_albums") =>
        LET A == AlbumOfSlot(artists, 1)
            B == AlbumOfSlot(artists, 2)
        IN  /\ ret.ab = "Superset" => CoveredBy(B, A, CurFS)
            /\ ret.ab = "Identical" =>
                  (CoveredBy(B, A, CurFS) /\ CoveredBy(A, B, CurFS))

\* the files of the album were deleted earlier in the run: it had files when
\* the run started and had none left when the last step began
DeletedEarlier(album) ==
    /\ \E p \in PathsOf(album) : history.start.ino[p] # Absent
    /\ \A p \in PathsOf(album) : ret.before.ino[p] = Absent

\* C24: a pair of process_albums with an album whose files were deleted
\* earlier in the run (by the pre-pass or by an operator choice) reads no
\* response and leaves every file and directory as it is.
DeletedAlbumNotPresented ==
    (ret.ev = "pair" /\ command = "dedup") =>
        \A key \in {ret.a, ret.b} :
            DeletedEarlier(StepArtist.albums[key]) =>
                /\ ~ ret.asked
                /\ fs = ret.before.ino
                /\ dirs = ret.before.dirs

\* ------------------------------------------------------------------------
\* is_same_song: order of the arguments, empty ISRC
\* ------------------------------------------------------------------------
\* C25: is_same_song(a, b) = is_same_song(b, a) for every two songs.
IsSameSongSymmetric ==
    (ret.ev = "is_same_song") => ret.val = ret.rev

\* the test is_same_song falls back on: equal normalized titles and two
\* non-empty files whose sizes differ by less than 1% of either
SameTitleAndSize(a, b, f) ==
    LET s_a == get_file_size(f, Unwrap(a.file_path))
        s_b == get_file_size(f, Unwrap(b.file_path))
    IN  /\ normalize_str(a.title) = normalize_str(b.title)
        /\ s_a > 0
        /\ s_b > 0
        /\ WithinOnePercent(s_a, s_b)
        /\ WithinOnePercent(s_b, s_a)

\* C26: two songs whose ISRC is present and empty are the same song only
\* when their normalized titles are equal and their file sizes within 1%.
EmptyIsrcDecidesNothing ==
    (/\ ret.ev = "is_same_song"
     /\ all_songs[1].isrc = Some(<<>>)
     /\ all_songs[2].isrc = Some(<<>>)) =>
        (ret.val => SameTitleAndSize(all_songs[1], all_songs[2], CurFS))

\* C27: after a non-dry hard-link attempt on an existing target, the target
\* path still names a file: the file it named before, or the file of source.
HardLinkKeepsTarget ==
    (ret.ev = "hard_link" /\ ~ dry_run /\ ret.before.ino[LinkTgt] # Absent) =>
        /\ fs[LinkTgt] # Absent
        /\ fs[LinkTgt] \in {ret.before.ino[LinkTgt], ret.before.ino[LinkSrc]}

\* ------------------------------------------------------------------------
\* Library::new against a grouping made by one thread
\* ------------------------------------------------------------------------
\* the file list grouped in one pass, front to back
SequentialLibrary == fold_songs(SelectSeq(all_songs, IsSupported), 1, <<>>)

\* the number of places the scanned file i has in the library map
PlacesInLibrary(i) ==
    Cardinality(UNION {{<<key, k>> : k \in {n \in DOMAIN artists[key] :
                                            artists[key][n] = all_songs[i]}} :
                       key \in DOMAIN artists})

\* C28: however the files are split into chunks and the chunk maps reduced,
\* the map Library::new returns is the map one thread grouping the same file
\* list builds: every supported file sits once, in the bucket of its key,
\* and an unsupported file nowhere.
ParallelScanIsSequential ==
    (ret.ev = "library_new") =>
        /\ artists = SequentialLibrary
        /\ \A i \in DOMAIN all_songs :
              IF IsSupported(all_songs[i])
              THEN /\ BucketsOf(i) = {SongKey(all_songs[i])}
                   /\ PlacesInLibrary(i) = 1
              ELSE BucketsOf(i) = {}

\* C28 witness: every file went to a chunk of its own and reduce merged two
\* of them into one bucket
ScanMergedChunks ==
    /\ ret.ev = "library_new"
    /\ "cuts" \in DOMAIN ret
    /\ Cardinality(ret.cuts) >= 1
    /\ Cardinality(ret.cuts) = Len(SelectSeq(all_songs, IsSupported)) - 1
    /\ \E key \in DOMAIN artists : Len(artists[key]) >= 2
    /\ Cardinality(DOMAIN artists) >= 2

\* ------------------------------------------------------------------------
\* fs.rs: Cache.  The cache file holds lines of text; Cache::new and
\* Cache::read_from_file call each other, one stack frame per call.
\* ------------------------------------------------------------------------
CACHE_PATH == <<1, "cache.txt">>

\* lines of the cache file
MaxCacheLines == 2

\* calls of Cache::new the stack has room for
MaxStack == 3

EmptyCache == [last_scan |-> None, scan_count |-> None]

\* str::splitn(2, c): the text before the first c and the text after it, or
\* the whole text when it holds no c
splitn2(s, c) ==
    IF c \notin Range(s) THEN <<s>>
    ELSE LET k == CHOOSE i \in DOMAIN s : s[i] = c /\ \A j \in 1..(i - 1) : s[j] # c
         IN  <<SubSeq(s, 1, k - 1), SubSeq(s, k + 1, Len(s))>>

\* str::split(c): the pieces between the occurrences of c, empty ones too
RECURSIVE split(_, _)
split(s, c) ==
    IF c \notin Range(s) THEN <<s>>
    ELSE <<splitn2(s, c)[1]>> \o split(splitn2(s, c)[2], c)

\* str::split_whitespace: the non-empty pieces between whitespace
RECURSIVE split_whitespace(_)
split_whitespace(s) ==
    LET t == trim_start(s)
    IN  IF t = <<>> THEN <<>>
        ELSE IF \E i \in DOMAIN t : is_whitespace(t[i])
        THEN LET k == CHOOSE i \in DOMAIN t :
                          is_whitespace(t[i]) /\ \A j \in 1..(i - 1) : ~ is_whitespace(t[j])
             IN  <<SubSeq(t, 1, k - 1)>> \o split_whitespace(SubSeq(t, k, Len(t)))
        ELSE <<t>>

\* str::parse::<u32>().ok() and str::parse::<usize>().ok(), on numbers that
\* fit
parse_number(t) ==
    LET d == IF t # <<>> /\ Head(t) = "+" THEN Tail(t) ELSE t
    IN  IF d # <<>> /\ \A i \in DOMAIN d : d[i] \in Range(DigitChars)
        THEN Some(parse_digits(d, 0))
        ELSE None

\* "HH:mm DD/MM/YY" to YYMMDDHHmm; a year below 43 fits u32
parse_datetime_to_u32(datetime) ==
    LET datetime_parts == split_whitespace(datetime)
    IN  IF Len(datetime_parts) # 2 THEN None
        ELSE LET time_parts == split(datetime_parts[1], ":")
                 date_parts == split(datetime_parts[2], "/")
             IN  IF Len(time_parts) # 2 \/ Len(date_parts) # 3 THEN None
                 ELSE LET hour == parse_number(time_parts[1])
                          minute == parse_number(time_parts[2])
                          day == parse_number(date_parts[1])
                          month == parse_number(date_parts[2])
                          year == parse_number(date_parts[3])
                      IN  IF \E n \in {hour, minute, day, month, year} : n = None
                          THEN None
                          ELSE Some(Unwrap(year) * 100000000 + Unwrap(month) * 1000000
                                    + Unwrap(day) * 10000 + Unwrap(hour) * 100
                                    + Unwrap(minute))

\* the body of the loop over content.lines() in read_from_file
parse_cache_line(cache, line) ==
    LET parts == splitn2(line, ":")
    IN  IF Len(parts) # 2 THEN cache
        ELSE LET key == trim(parts[1])
                 value == trim(parts[2])
             IN  IF key = <<"l", "a", "s", "t", "_", "s", "c", "a", "n">>
                 THEN (IF IsSome(parse_datetime_to_u32(value))
                       THEN [cache EXCEPT !.last_scan = parse_datetime_to_u32(value)]
                       ELSE cache)
                 ELSE IF key = <<"s", "c", "a", "n", "_", "c", "o", "u", "n", "t">>
                 THEN (IF IsSome(parse_number(value))
                       THEN [cache EXCEPT !.scan_count = parse_number(value)]
                       ELSE cache)
                 ELSE cache

RECURSIVE parse_cache(_, _, _)
parse_cache(cache, lines, k) ==
    IF k > Len(lines) THEN cache
    ELSE parse_cache(parse_cache_line(cache, lines[k]), lines, k + 1)

\* what a line of the cache file can be: the two lines write_to_file writes,
\* a line without colon, a date without time, a count that is no number
CacheLines ==
    { <<"s", "c", "a", "n", "_", "c", "o", "u", "n", "t", ":", " ", "7">>,
      <<"l", "a", "s", "t", "_", "s", "c", "a", "n", ":", " ", "1", "2", ":", "3", "0", " ", "1", "/", "2", "/", "2", "1">>,
      <<"j", "u", "n", "k">>,
      <<"l", "a", "s", "t", "_", "s", "c", "a", "n", ":", " ", "1", "/", "2", "/", "2", "1">>,
      <<"s", "c", "a", "n", "_", "c", "o", "u", "n", "t", ":", " ", "x">> }

\* what the cache file can hold
CacheContents == UNION {[1..n -> CacheLines] : n \in 0..MaxCacheLines}

\* the caches a parse can start from: every value a line can give a field
StartCaches ==
    [last_scan  : {parse_cache_line(EmptyCache, l).last_scan : l \in CacheLines},
     scan_count : {parse_cache_line(EmptyCache, l).scan_count : l \in CacheLines}]

\* the loop over content.lines() of read_from_file, for each content of the
\* file and each cache the loop can start from
parsed ==
    [lines \in CacheContents |->
        [cache \in StartCaches |-> parse_cache(cache, lines, 1)]]

InitCache ==
    /\ command = "cache_new"
    /\ dry_run = FALSE
    /\ use_hard_links = FALSE
    /\ all_songs = <<>>
    /\ fs \in [{CACHE_PATH} -> {Absent, 1}]
    /\ fsize = <<1>>
    /\ dirs = {1}
    /\ dev = OneDevice
    /\ album_keys \in (IF fs[CACHE_PATH] = Absent THEN {<<>>} ELSE CacheContents)
    \* the text of the file never changes: what the loop over its lines
    \* makes of a cache is worked out once and kept in artists
    /\ artists = parsed[album_keys]
    /\ pc = "start"
    /\ todo = {}
    /\ cur = None
    /\ pi = 0
    /\ pj = 0
    /\ prompts = 0
    /\ mutated = FALSE
    /\ processed_pairs = {}
    /\ history = [flagged |-> {}, start |-> CurFS]
    /\ ret = NoRet

\* a caller calls Cache::new, which calls read_from_file; pi counts the
\* calls of Cache::new that have not returned
CallCacheNew ==
    /\ pc = "start"
    /\ command = "cache_new"
    /\ pi' = 1
    /\ pc' = "read"
    /\ UNCHANGED <<command, dry_run, use_hard_links, all_songs, fs, fsize, dirs,
                   dev, artists, todo, cur, album_keys, pj, prompts, mutated,
                   processed_pairs, history, ret>>

\* read_from_file: fs::read_to_string(CACHE_PATH)?  On an error it returns
\* it and the calling Cache::new returns the empty cache; otherwise it calls
\* Cache::new, which needs a stack frame
ReadFromFile ==
    /\ pc = "read"
    /\ IF fs[CACHE_PATH] = Absent
       THEN /\ ret' = [ev |-> "cache_new", cache |-> EmptyCache]
            /\ pi' = pi - 1
            /\ pc' = IF pi = 1 THEN "returned" ELSE "parse"
       ELSE /\ ret' = ret
            /\ IF pi < MaxStack
               THEN pi' = pi + 1 /\ pc' = "read"
               ELSE pi' = pi /\ pc' = "overflow"
    /\ UNCHANGED <<command, dry_run, use_hard_links, all_songs, fs, fsize, dirs,
                   dev, artists, todo, cur, album_keys, pj, prompts, mutated,
                   processed_pairs, history>>

\* read_from_file after its call of Cache::new returned: the lines it read
\* are parsed into that cache, Ok(cache) goes to the calling Cache::new,
\* which returns it
ParseAndReturn ==
    /\ pc = "parse"
    /\ ret' = [ev |-> "cache_new", cache |-> artists[ret.cache]]
    /\ pi' = pi - 1
    /\ pc' = IF pi = 1 THEN "returned" ELSE "parse"
    /\ UNCHANGED <<command, dry_run, use_hard_links, all_songs, fs, fsize, dirs,
                   dev, artists, todo, cur, album_keys, pj, prompts, mutated,
                   processed_pairs, history>>

\* another process removes the cache file after read_from_file has read it
RemoveCacheFile ==
    /\ pc = "read"
    /\ pi >= 2
    /\ fs[CACHE_PATH] # Absent
    /\ fs' = [fs EXCEPT ![CACHE_PATH] = Absent]
    /\ UNCHANGED <<command, dry_run, use_hard_links, all_songs, fsize, dirs,
                   dev, artists, pc, todo, cur, album_keys, pi, pj, prompts,
                   mutated, processed_pairs, history, ret>>

CacheStep ==
    \/ CallCacheNew
    \/ ReadFromFile
    \/ ParseAndReturn

NextCache ==
    \/ CacheStep
    \/ RemoveCacheFile

\* the program runs on as long as it can (each of its steps moves pc or pi);
\* the file may stay where it is
SpecCache == InitCache /\ [][NextCache]_vars /\ WF_<<pc, pi>>(CacheStep)

\* C29: Cache::new returns in the end: the empty cache when the cache file
\* is missing, the cache parsed from its lines when the file is there.
CacheNewReturns ==
    <>(/\ pc = "returned"
       /\ ret.ev = "cache_new"
       /\ ret.cache = IF history.start.ino[CACHE_PATH] = Absent THEN EmptyCache
                      ELSE parsed[album_keys][EmptyCache])

====
